---------------------------- MODULE Spec2Model ----------------------------
(***************************************************************************)
(* A model of the parser and word-expansion engine of the shell            *)
(* (posh-core/src/engine/parser/ast.rs).                                   *)
(*                                                                         *)
(* Text is a sequence of characters, each character a TLA+ string.  The    *)
(* character "POUND" stands for a two-byte UTF-8 character; every other    *)
(* character is one byte wide.  Offsets handed to replace_range are byte   *)
(* offsets, as in Rust's String.                                           *)
(*                                                                         *)
(* A function that can abort the process returns either Ret(v) or          *)
(* Panic(msg); a function returning Result returns Ok(v), Err(e) or        *)
(* Panic(msg).                                                             *)
(***************************************************************************)
EXTENDS Integers, Sequences, FiniteSets, TLC

VARIABLES pc,        \* position in the run: which operation is next
          tokens,    \* the token sequence handed to parse_tokens
          tree,      \* what parse_tokens gave for it
          text,      \* the text of the word under the scanner
          mode,      \* the ExpansionType the word is scanned with
          word,      \* what parse_word gave for text
          bindings,  \* the binding set (vars) handed to the resolver
          resolved,  \* what expand_word gave for word
          expanded,  \* what CommandType::expand gave for the command
          line,      \* the input line of parse
          rendered,  \* to_string of the parsed line
          rendered2, \* to_string of the re-parsed rendering
          cmdvars,   \* what Command::vars gave for the command
          redirs,    \* what Command::redirections gave for the command
          frames,    \* the parse_word calls in progress, the innermost first
          state      \* the State of read_line

vars == <<pc, tokens, tree, text, mode, word, bindings, resolved, expanded,
          line, rendered, rendered2, cmdvars, redirs, frames, state>>

-----------------------------------------------------------------------------
(* Bounds of the model *)

MaxTokens == 4
MaxWordLen == 3
MaxPieces == 3
MaxBindings == 2
MaxLine == 3
MaxAssignments == 2
MaxNesting == 3
MaxEvents == 3

-----------------------------------------------------------------------------
(* Option, outcomes *)

None == <<>>
Some(x) == <<x>>
is_none(o) == o = <<>>

Ret(v) == [tag |-> "Ret", val |-> v]
Ok(v) == [tag |-> "Ok", val |-> v]
Err(e) == [tag |-> "Err", err |-> e]
Panic(m) == [tag |-> "Panic", msg |-> m]

Unset == [tag |-> "Unset"]

-----------------------------------------------------------------------------
(* Strings *)

Width(c) == IF c = "POUND" THEN 2 ELSE 1

RECURSIVE len(_)
len(s) == IF s = <<>> THEN 0 ELSE Width(Head(s)) + len(Tail(s))

\* The number of characters that lie before byte offset n, when n is a
\* character boundary of s.
CharsBefore(s, n) == CHOOSE k \in 0..Len(s) : len(SubSeq(s, 1, k)) = n

is_char_boundary(s, n) == \E k \in 0..Len(s) : len(SubSeq(s, 1, k)) = n

\* String::replace_range(start..=end, with)
replace_range(s, start, end, with) ==
    IF ~is_char_boundary(s, start) \/ ~is_char_boundary(s, end + 1)
    THEN Panic("assertion failed: self.is_char_boundary(n)")
    ELSE Ret(SubSeq(s, 1, CharsBefore(s, start)) \o with
             \o SubSeq(s, CharsBefore(s, end + 1) + 1, Len(s)))

\* str::trim
RECURSIVE trim_start(_)
trim_start(s) == IF s # <<>> /\ Head(s) = " " THEN trim_start(Tail(s)) ELSE s

RECURSIVE trim_end(_)
trim_end(s) ==
    IF s # <<>> /\ s[Len(s)] = " " THEN trim_end(SubSeq(s, 1, Len(s) - 1)) ELSE s

trim(s) == trim_end(trim_start(s))

\* [String]::join(sep)
RECURSIVE join(_, _)
join(ss, sep) ==
    IF ss = <<>> THEN <<>>
    ELSE IF Len(ss) = 1 THEN ss[1]
    ELSE ss[1] \o sep \o join(Tail(ss), sep)

\* The position of the first c in s, 0 when there is none.
RECURSIVE find(_, _, _)
find(s, c, i) ==
    IF i > Len(s) THEN 0 ELSE IF s[i] = c THEN i ELSE find(s, c, i + 1)

-----------------------------------------------------------------------------
(* Collaborators whose code lies outside ast.rs *)

\* util::is_valid_first_character_of_expansion
is_valid_first_character_of_expansion(c) == c \in {"a", "b", "c", "_"}

\* path::home_dir
home_dir == <<"/", "h">>

-----------------------------------------------------------------------------
(* Tokens *)

TString(s) == [t |-> "String", s |-> s]
TSingleQuotedString(s, closed) == [t |-> "SingleQuotedString", s |-> s, closed |-> closed]
TDoubleQuotedString(s, closed) == [t |-> "DoubleQuotedString", s |-> s, closed |-> closed]
TRedirectOutput(from, to, space, append) ==
    [t |-> "RedirectOutput", from |-> from, to |-> to, space |-> space, append |-> append]
TRedirectInput(to) == [t |-> "RedirectInput", to |-> to]
TPipe == [t |-> "Pipe"]
TSemicolon == [t |-> "Semicolon"]
TSpace == [t |-> "Space"]
TAnd == [t |-> "And"]
TOr == [t |-> "Or"]
TAmpersand == [t |-> "Ampersand"]

-----------------------------------------------------------------------------
(* The tokenizer, super::lex: split at spaces, `;`, `|`, `&` and quotes; an  *)
(* unquoted `$(` runs to the `)` that balances it.                          *)

\* The position of the `)` balancing a `$(` whose `(` is at position i - 1,
\* Len(s) + 1 when it is never closed.
RECURSIVE lex_close(_, _, _)
lex_close(s, i, depth) ==
    IF i > Len(s) THEN i
    ELSE IF s[i] = "$" /\ i < Len(s) /\ s[i + 1] = "(" THEN lex_close(s, i + 2, depth + 1)
    ELSE IF s[i] = ")" THEN (IF depth = 0 THEN i ELSE lex_close(s, i + 1, depth - 1))
    ELSE lex_close(s, i + 1, depth)

lex_flush(buf, toks) == IF buf = <<>> THEN toks ELSE Append(toks, TString(buf))

RECURSIVE lex_from(_, _, _, _)
lex_from(s, i, buf, toks) ==
    IF i > Len(s) THEN lex_flush(buf, toks)
    ELSE LET ch == s[i]
             nxt == IF i < Len(s) THEN Some(s[i + 1]) ELSE None
         IN  CASE ch = " " -> lex_from(s, i + 1, <<>>, Append(lex_flush(buf, toks), TSpace))
               [] ch = ";" -> lex_from(s, i + 1, <<>>, Append(lex_flush(buf, toks), TSemicolon))
               [] ch = "|" ->
                    IF nxt = Some("|")
                    THEN lex_from(s, i + 2, <<>>, Append(lex_flush(buf, toks), TOr))
                    ELSE lex_from(s, i + 1, <<>>, Append(lex_flush(buf, toks), TPipe))
               [] ch = "&" ->
                    IF nxt = Some("&")
                    THEN lex_from(s, i + 2, <<>>, Append(lex_flush(buf, toks), TAnd))
                    ELSE lex_from(s, i + 1, <<>>, Append(lex_flush(buf, toks), TAmpersand))
               [] ch \in {"'", "\""} ->
                    LET j == find(s, ch, i + 1)
                        closed == j # 0
                        stop == IF closed THEN j ELSE Len(s) + 1
                        body == SubSeq(s, i + 1, stop - 1)
                        tok == IF ch = "'" THEN TSingleQuotedString(body, closed)
                                           ELSE TDoubleQuotedString(body, closed)
                    IN  lex_from(s, stop + 1, <<>>, Append(lex_flush(buf, toks), tok))
               [] ch = "$" /\ nxt = Some("(") ->
                    LET j == lex_close(s, i + 2, 0)
                        stop == IF j > Len(s) THEN Len(s) ELSE j
                    IN  lex_from(s, stop + 1, buf \o SubSeq(s, i, stop), toks)
               [] OTHER -> lex_from(s, i + 1, Append(buf, ch), toks)

lex(s, interactive) == lex_from(s, 1, <<>>, <<>>)

-----------------------------------------------------------------------------
(* The syntax tree *)

Word(name, expansions) == [name |-> name, expansions |-> expansions]

Parameter(start, end, name) ==
    [kind |-> "Parameter", start |-> start, end |-> end, name |-> name]
Command(start, end, ast) ==
    [kind |-> "Command", start |-> start, end |-> end, ast |-> ast]
Glob(start, end, pattern, recursive) ==
    [kind |-> "Glob", start |-> start, end |-> end, pattern |-> pattern,
     recursive |-> recursive]
Tilde(index) == [kind |-> "Tilde", index |-> index]

MetaWord(w) == [kind |-> "Word", word |-> w]
MetaAssignment(var, val) == [kind |-> "Assignment", var |-> var, val |-> val]
MetaRedirect(r) == [kind |-> "Redirect", redirect |-> r]
RedirectOutput(from, to, append) ==
    [kind |-> "Output", from |-> from, to |-> to, append |-> append]
RedirectInput(to) == [kind |-> "Input", to |-> to]

Cmd(name, prefixes, suffixes) ==
    [name |-> name, prefixes |-> prefixes, suffixes |-> suffixes]
Single(cmd) == [kind |-> "Single", cmd |-> cmd]
Pipeline(cmds) == [kind |-> "Pipeline", cmds |-> cmds]
SyntaxTree(commands) == [commands |-> commands]

-----------------------------------------------------------------------------
(* The word scanner, parse_word, and the parser *)

RECURSIVE parse(_)
RECURSIVE parse_tokens(_)
RECURSIVE parse_command(_)
RECURSIVE parse_meta(_, _)
RECURSIVE parse_word(_, _)
RECURSIVE scan_loop(_, _, _, _, _, _)

\* The inner loop of a Parameter: how many more name characters follow
\* position p (the characters up to p are consumed).
RECURSIVE param_more(_, _)
param_more(s, p) ==
    IF p < Len(s) /\ is_valid_first_character_of_expansion(s[p + 1])
    THEN 1 + param_more(s, p + 1)
    ELSE 0

\* The inner loop of a Command expansion: p characters are consumed.
RECURSIVE command_loop(_, _, _, _, _)
command_loop(s, p, index, nested_level, subcmd) ==
    IF p >= Len(s) THEN [p |-> p, index |-> index, subcmd |-> subcmd]
    ELSE LET next == s[p + 1]
             level == IF next = "$" /\ p + 1 < Len(s) /\ s[p + 2] = "("
                      THEN nested_level + 1 ELSE nested_level
         IN  IF next = ")" /\ level = 0
             THEN [p |-> p + 1, index |-> index + 1, subcmd |-> subcmd]
             ELSE command_loop(s, p + 1, index + 1,
                               IF next = ")" THEN level - 1 ELSE level,
                               Append(subcmd, next))

\* The inner loop of a Glob: p characters are consumed.
RECURSIVE glob_loop(_, _, _, _, _)
glob_loop(s, p, index, recursive, pattern) ==
    IF p >= Len(s)
    THEN [p |-> p, index |-> index, recursive |-> recursive, pattern |-> pattern]
    ELSE LET c == s[p + 1]
         IN  IF c = "*"
             THEN glob_loop(s, p + 1, index + 1, TRUE, Append(pattern, "*"))
             ELSE IF c \in {" ", "/"}
             THEN [p |-> p, index |-> index, recursive |-> recursive,
                   pattern |-> pattern]
             ELSE glob_loop(s, p + 1, index + 1, recursive, Append(pattern, c))

\* The guard of the `~` arm.
tilde_guard(prev_char, expand) ==
    expand = "All" /\ prev_char \in {None, Some(" "), Some("=")}

\* A `~` taken as followed by the end of the word wherever it stands.
always_followed(s, p) == TRUE

\* What the `~` arm matches chars.peek() against: p characters are consumed.
tilde_followed(s, p) == p >= Len(s) \/ s[p + 1] \in {" ", "/"}

\* The Parameter arm, after its inner loop consumed n more name characters.
scan_parameter(s, p, index, n, expansions, expand) ==
    scan_loop(s, p + 2 + n, index + n + 2, Some("$"),
              Append(expansions,
                     Parameter(index, index + n + 1, SubSeq(s, p + 2, p + 2 + n))),
              expand)

\* The Command arm recording a range that ends one position further, as if
\* a `)` always followed what its inner loop consumed.
scan_command_wide(s, start_index, r, ast, expansions, expand) ==
    IF ast.tag = "Panic" THEN ast
    ELSE scan_loop(s, r.p, r.index + 2, Some("$"),
                   Append(expansions, Command(start_index, r.index + 2, ast.val)),
                   expand)

\* The Command arm, after its inner loop gave r and parse(subcmd) gave ast.
scan_command(s, start_index, r, ast, expansions, expand) ==
    IF ast.tag = "Panic" THEN ast
    ELSE scan_loop(s, r.p, r.index + 2, Some("$"),
                   Append(expansions, Command(start_index, r.index + 1, ast.val)),
                   expand)

scan_subcmd(s, start_index, r, expansions, expand) ==
    scan_command(s, start_index, r, parse(r.subcmd), expansions, expand)

\* The Glob arm, after its inner loop gave r.
scan_glob(s, start_index, r, expansions, expand) ==
    scan_loop(s, r.p, r.index + 1, Some("*"),
              Append(expansions, Glob(start_index, r.index, r.pattern, r.recursive)),
              expand)

\* The `while let Some(ch) = chars.next()` loop: p characters are consumed.
scan_loop(s, p, index, prev_char, expansions, expand) ==
    IF p >= Len(s) THEN Ret(Word(s, expansions))
    ELSE
    LET ch == s[p + 1]
        peek == IF p + 1 < Len(s) THEN Some(s[p + 2]) ELSE None
    IN  CASE ch = " " ->
               scan_loop(s, p + 1, index + 1, Some(ch), expansions, expand)
          [] ch = "$" ->
               IF peek # None /\ is_valid_first_character_of_expansion(peek[1])
               THEN scan_parameter(s, p, index, param_more(s, p + 2), expansions, expand)
               ELSE IF peek = Some("(")
               THEN scan_subcmd(s, index, command_loop(s, p + 2, index, 0, <<>>),
                                expansions, expand)
               ELSE Panic("got unexpected")
          [] ch = "*" /\ expand = "All" ->
               scan_glob(s, index, glob_loop(s, p + 1, index, FALSE, <<"*">>),
                         expansions, expand)
          [] ch = "~" /\ tilde_guard(prev_char, expand) ->
               scan_loop(s, p + 1, index + 1, Some(ch),
                         IF tilde_followed(s, p + 1)
                         THEN Append(expansions, Tilde(index))
                         ELSE expansions,
                         expand)
          [] OTHER ->
               scan_loop(s, p + 1, index + 1, Some(ch), expansions, expand)

\* parse_word without its early return for ExpansionType::None.
parse_word_scanning(s, expand) == scan_loop(s, 0, 0, None, <<>>, expand)

parse_word(s, expand) ==
    IF expand = "None" THEN Ret(Word(s, <<>>))
    ELSE scan_loop(s, 0, 0, None, <<>>, expand)

\* Some(Meta::Word(word)) of a scanned word.
word_meta(w) == IF w.tag = "Panic" THEN w ELSE Ret(Some(MetaWord(w.val)))

\* Some(Meta::Assignment(var_word, val_word)) of the two scanned words.
assignment_meta(var_word, val_word) ==
    IF var_word.tag = "Panic" THEN var_word
    ELSE IF val_word.tag = "Panic" THEN val_word
    ELSE Ret(Some(MetaAssignment(var_word.val, val_word.val)))

\* Some(Meta::Redirect(Redirect::Input { to })) of the scanned word.
input_meta(to) ==
    IF to.tag = "Panic" THEN to ELSE Ret(Some(MetaRedirect(RedirectInput(to.val))))

\* Some(Meta::Redirect(Redirect::Output { from, to, append })): from is None
\* or Some(scanned word).
output_meta(from, to, append) ==
    IF from # None /\ from[1].tag = "Panic" THEN from[1]
    ELSE IF to.tag = "Panic" THEN to
    ELSE Ret(Some(MetaRedirect(RedirectOutput(
                 IF from = None THEN None ELSE Some(from[1].val), to.val, append))))

\* A split position wherever the string holds a `=`, whatever is_prefix says.
find_anywhere(s, is_prefix) == find(s, "=", 1)

\* `if is_prefix { match s.split_once('=') { Some((var, val)) => ..., None => ... } }`:
\* the position of the `=` the string is split at, 0 when it is not split.
find_if_prefix(s, is_prefix) == IF is_prefix THEN find(s, "=", 1) ELSE 0

\* The Token::String arm, i being what find_if_prefix gave.
string_meta(s, i) ==
    IF i # 0
    THEN assignment_meta(parse_word(SubSeq(s, 1, i - 1), "None"),
                         parse_word(SubSeq(s, i + 1, Len(s)), "All"))
    ELSE word_meta(parse_word(s, "All"))

\* Ret(Some(meta)), Ret(None), or a panic.
parse_meta(token, is_prefix) ==
    CASE token.t = "String" -> string_meta(token.s, find_if_prefix(token.s, is_prefix))
      [] token.t = "SingleQuotedString" ->
           IF token.closed THEN word_meta(parse_word(token.s, "None")) ELSE Ret(None)
      [] token.t = "DoubleQuotedString" ->
           IF token.closed
           THEN word_meta(parse_word(token.s, "VariablesAndCommands"))
           ELSE Ret(None)
      [] token.t = "RedirectInput" -> input_meta(parse_word(token.to, "All"))
      [] token.t = "RedirectOutput" ->
           output_meta(IF token.from = None THEN None
                       ELSE Some(parse_word(token.from[1], "All")),
                       parse_word(token.to, "All"), token.append)
      [] OTHER -> Panic("internal error: entered unreachable code")

RECURSIVE command_tokens(_, _, _, _, _)

\* The arms of parse_command for a string or quoted token, m being what
\* parse_meta gave for token i.
string_token(toks, i, name, prefixes, suffixes, m) ==
    IF m.tag = "Panic" THEN m
    ELSE IF m.val = None THEN command_tokens(toks, i + 1, name, prefixes, suffixes)
    ELSE IF m.val[1].kind = "Word"
    THEN IF is_none(name)
         THEN command_tokens(toks, i + 1, m.val, prefixes, suffixes)
         ELSE command_tokens(toks, i + 1, name, prefixes, Append(suffixes, m.val[1]))
    ELSE IF m.val[1].kind = "Assignment"
    THEN IF is_none(name)
         THEN command_tokens(toks, i + 1, name, Append(prefixes, m.val[1]), suffixes)
         ELSE command_tokens(toks, i + 1, name, prefixes, Append(suffixes, m.val[1]))
    ELSE Panic("disallowed type")

\* The arms for a redirection token placing it among the suffixes wherever
\* it stands.
redirect_token_after(toks, i, name, prefixes, suffixes, m) ==
    IF m.tag = "Panic" THEN m
    ELSE IF m.val = None THEN command_tokens(toks, i + 1, name, prefixes, suffixes)
    ELSE command_tokens(toks, i + 1, name, prefixes, Append(suffixes, m.val[1]))

\* The arms of parse_command for a redirection token.
redirect_token(toks, i, name, prefixes, suffixes, m) ==
    IF m.tag = "Panic" THEN m
    ELSE IF m.val = None THEN command_tokens(toks, i + 1, name, prefixes, suffixes)
    ELSE IF is_none(name)
    THEN command_tokens(toks, i + 1, name, Append(prefixes, m.val[1]), suffixes)
    ELSE command_tokens(toks, i + 1, name, prefixes, Append(suffixes, m.val[1]))

\* The `for token in tokens` loop of parse_command, from token i on.
command_tokens(toks, i, name, prefixes, suffixes) ==
    IF i > Len(toks)
    THEN Ret([name |-> name, prefixes |-> prefixes, suffixes |-> suffixes])
    ELSE
    CASE toks[i].t \in {"String", "SingleQuotedString", "DoubleQuotedString"} ->
           string_token(toks, i, name, prefixes, suffixes,
                        parse_meta(toks[i], is_none(name)))
      [] toks[i].t \in {"RedirectOutput", "RedirectInput"} ->
           redirect_token(toks, i, name, prefixes, suffixes,
                          parse_meta(toks[i], is_none(name)))
      [] toks[i].t = "And" -> Panic("not yet implemented: AND is not yet implemented")
      [] toks[i].t = "Or" -> Panic("not yet implemented: OR is not yet implemented")
      [] toks[i].t = "Space" -> command_tokens(toks, i + 1, name, prefixes, suffixes)
      [] toks[i].t = "Ampersand" ->
           Panic("not yet implemented: asynchronous execution is not yet implemented")
      [] toks[i].t = "Semicolon" ->
           Panic("internal error: entered unreachable code: semicolons should have been found already")
      [] toks[i].t = "Pipe" ->
           Panic("internal error: entered unreachable code: pipes should have been found already")

\* The end of parse_command, r being what the loop gave.
command_of(r) ==
    IF r.tag = "Panic" THEN r
    ELSE IF r.val.name # None /\ r.val.name[1].kind = "Word"
    THEN Ret(Some(Cmd(r.val.name[1].word, r.val.prefixes, r.val.suffixes)))
    ELSE Ret(None)

\* Ret(Some(command)), Ret(None) when the tokens hold no command name, or a panic.
parse_command(toks) == command_of(command_tokens(toks, 1, None, <<>>, <<>>))

\* slice::split: the runs of toks between the tokens of type sep.
RECURSIVE split(_, _)
split(toks, sep) ==
    LET k == CHOOSE k \in 1..(Len(toks) + 1) :
                 /\ k = Len(toks) + 1 \/ toks[k].t = sep
                 /\ \A j \in 1..(k - 1) : toks[j].t # sep
    IN  IF k > Len(toks) THEN <<toks>>
        ELSE <<SubSeq(toks, 1, k - 1)>> \o split(SubSeq(toks, k + 1, Len(toks)), sep)

RECURSIVE pipeline_commands(_, _, _)

\* The body of `for &command in cmds` for a stage that is not empty, c being
\* what parse_command gave for it.
pipeline_command(cmds, i, commands, c) ==
    IF c.tag = "Panic" THEN c
    ELSE IF c.val = None THEN Panic("could not parse command")
    ELSE pipeline_commands(cmds, i + 1, Append(commands, c.val[1]))

\* The `for &command in cmds` loop of parse_tokens, from stage i on.
pipeline_commands(cmds, i, commands) ==
    IF i > Len(cmds) THEN Ret(commands)
    ELSE IF cmds[i] = <<>> THEN pipeline_commands(cmds, i + 1, commands)
    ELSE pipeline_command(cmds, i, commands, parse_command(cmds[i]))

\* The `&[cmd] if !cmd.is_empty()` arm, c being what parse_command gave.
add_single(commands, c) ==
    IF c.tag = "Panic" THEN c
    ELSE IF c.val = None THEN Panic("could not parse command")
    ELSE Ret(Append(commands, Single(c.val[1])))

\* The `cmds` arm without its `if !commands.is_empty()`.
add_commands_always(commands, cs) ==
    IF cs.tag = "Panic" THEN cs ELSE Ret(Append(commands, Pipeline(cs.val)))

\* The end of the `cmds` arm, cs being what its loop gave.
add_commands(commands, cs) ==
    IF cs.tag = "Panic" THEN cs
    ELSE IF cs.val # <<>> THEN Ret(Append(commands, Pipeline(cs.val)))
    ELSE Ret(commands)

\* One iteration of `for pipeline in commands`: the tree's commands after it.
add_pipeline(commands, pipeline) ==
    IF Len(pipeline) = 1 /\ pipeline[1] # <<>>
    THEN add_single(commands, parse_command(pipeline[1]))
    ELSE add_commands(commands, pipeline_commands(pipeline, 1, <<>>))

RECURSIVE pipelines(_, _, _)

pipelines_next(groups, i, r) ==
    IF r.tag = "Panic" THEN r ELSE pipelines(groups, i + 1, r.val)

\* The `for pipeline in commands` loop of parse_tokens, from group i on.
pipelines(groups, i, commands) ==
    IF i > Len(groups) THEN Ret(SyntaxTree(commands))
    ELSE pipelines_next(groups, i, add_pipeline(commands, split(groups[i], "Pipe")))

parse_tokens(toks) == pipelines(split(toks, "Semicolon"), 1, <<>>)

parse(l) == parse_tokens(lex(l, FALSE))

-----------------------------------------------------------------------------
(* Rendering, to_string *)

Meta_to_string(m) ==
    CASE m.kind = "Word" -> m.word.name
      [] m.kind = "Redirect" ->
           LET r == m.redirect
           IN  IF r.kind = "Input" THEN <<"<">> \o r.to.name
               ELSE IF r.from = None
               THEN (IF r.append THEN <<">", ">">> ELSE <<">">>) \o r.to.name
               ELSE r.from[1].name \o (IF r.append THEN <<">", ">">> ELSE <<">">>)
                    \o r.to.name
      [] m.kind = "Assignment" -> m.var.name \o <<"=">> \o m.val.name

trimmed(metas) == [i \in 1..Len(metas) |-> trim(Meta_to_string(metas[i]))]

Command_to_string(c) ==
    LET prefixes == join(trimmed(c.prefixes), <<" ">>)
        suffixes == join(trimmed(c.suffixes), <<" ">>)
    IN  (IF prefixes = <<>> THEN <<>> ELSE prefixes \o <<" ">>)
        \o c.name.name \o (IF suffixes = <<>> THEN <<>> ELSE <<" ">>)
        \o suffixes

CommandType_to_string(ct) ==
    IF ct.kind = "Single" THEN Command_to_string(ct.cmd)
    ELSE join([i \in 1..Len(ct.cmds) |-> Command_to_string(ct.cmds[i])],
              <<" ", "|", " ">>)

SyntaxTree_to_string(t) ==
    join([i \in 1..Len(t.commands) |-> CommandType_to_string(t.commands[i])],
         <<";", " ">>)

-----------------------------------------------------------------------------
(* The expansion resolver, expand_word.  A run carries the word text as it  *)
(* is (name), the positions marked for removal (to_remove), and ops: one    *)
(* entry per replace_range performed, with the text it was applied to.      *)

Unimplemented(m) == [error |-> "Unimplemented", msg |-> m]

Op(name, start, end) == [text |-> name, start |-> start, end |-> end]

\* The run after word.name.replace_range(start..=end, _) gave r and, when it
\* did not panic, to_remove.push(i).
replaced(st, r, i, start, end) ==
    IF r.tag = "Panic"
    THEN [st EXCEPT !.status = "panic", !.msg = r.msg,
                    !.ops = Append(st.ops, Op(st.name, start, end))]
    ELSE [st EXCEPT !.name = r.val, !.to_remove = Append(st.to_remove, i),
                    !.ops = Append(st.ops, Op(st.name, start, end))]

\* `for (var, val) in vars.iter()`, from binding j on, for the Parameter e
\* at position i of the expansions.
RECURSIVE parameter_vars(_, _, _, _, _)
parameter_vars(vs, j, e, i, st) ==
    IF j > Len(vs) \/ st.status # "run" THEN st
    ELSE IF vs[j][1] = e.name
    THEN parameter_vars(vs, j + 1, e, i,
                        replaced(st, replace_range(st.name, e.start, e.end, vs[j][2]),
                                 i, e.start, e.end))
    ELSE parameter_vars(vs, j + 1, e, i, st)

\* `for (i, expansion) in word.expansions.iter().enumerate().rev()`, from
\* position i down.
RECURSIVE expansions_rev(_, _, _, _)
expansions_rev(vs, expansions, i, st) ==
    IF i = 0 \/ st.status # "run" THEN st
    ELSE
    CASE expansions[i].kind = "Tilde" ->
           expansions_rev(vs, expansions, i - 1,
                          replaced(st,
                                   replace_range(st.name, expansions[i].index,
                                                 expansions[i].index, home_dir),
                                   i, expansions[i].index, expansions[i].index))
      [] expansions[i].kind = "Parameter" ->
           expansions_rev(vs, expansions, i - 1,
                          parameter_vars(vs, 1, expansions[i], i, st))
      [] expansions[i].kind = "Command" ->
           [st EXCEPT !.status = "err",
                      !.msg = "command expansions are not yet implemented"]
      [] expansions[i].kind = "Glob" ->
           [st EXCEPT !.status = "err",
                      !.msg = "glob expansions are not yet implemented"]

\* Vec::sort
RECURSIVE sort(_)
sort(s) ==
    IF s = <<>> THEN <<>>
    ELSE LET k == CHOOSE k \in 1..Len(s) : \A j \in 1..Len(s) : s[k] <= s[j]
         IN  <<s[k]>> \o sort(SubSeq(s, 1, k - 1) \o SubSeq(s, k + 1, Len(s)))

\* Vec::dedup
RECURSIVE dedup(_)
dedup(s) ==
    IF Len(s) <= 1 THEN s
    ELSE IF s[1] = s[2] THEN dedup(Tail(s))
    ELSE <<s[1]>> \o dedup(Tail(s))

\* Vec::remove
remove(s, i) == SubSeq(s, 1, i - 1) \o SubSeq(s, i + 1, Len(s))

\* `for i in to_remove.into_iter().rev()`, from entry k down.
RECURSIVE remove_rev(_, _, _)
remove_rev(expansions, to_remove, k) ==
    IF k = 0 THEN expansions
    ELSE remove_rev(remove(expansions, to_remove[k]), to_remove, k - 1)

\* The removal loop over to_remove sorted, an index standing in it as often
\* as it was pushed.
remove_pushed(expansions, to_remove) ==
    remove_rev(expansions, sort(to_remove), Len(to_remove))

\* to_remove.sort(); to_remove.dedup(); and the removal loop.
remove_applied(expansions, to_remove) ==
    remove_rev(expansions, dedup(sort(to_remove)), Len(dedup(sort(to_remove))))

\* The end of expand_word, st being the run its loop gave.
expand_word_end(w, st) ==
    CASE st.status = "panic" -> [res |-> Panic(st.msg), ops |-> st.ops]
      [] st.status = "err" -> [res |-> Err(Unimplemented(st.msg)), ops |-> st.ops]
      [] OTHER -> [res |-> Ok(Word(st.name, remove_applied(w.expansions, st.to_remove))),
                   ops |-> st.ops]

\* expand_word with the replace_range calls it made.
expand_word_run(vs, w) ==
    IF w.expansions = <<>> THEN [res |-> Ok(w), ops |-> <<>>]
    ELSE expand_word_end(w, expansions_rev(vs, w.expansions, Len(w.expansions),
                                           [name |-> w.name, to_remove |-> <<>>,
                                            ops |-> <<>>, status |-> "run",
                                            msg |-> ""]))

expand_word(vs, w) == expand_word_run(vs, w).res

\* Meta::Redirect(Redirect::Output { from, to, append }) of the expanded
\* words: from is None or Some(result).
expanded_output(from, to, append) ==
    IF from # None /\ from[1].tag # "Ok" THEN from[1]
    ELSE IF to.tag # "Ok" THEN to
    ELSE Ok(MetaRedirect(RedirectOutput(
                IF from = None THEN None ELSE Some(from[1].val), to.val, append)))

expanded_input(to) ==
    IF to.tag # "Ok" THEN to ELSE Ok(MetaRedirect(RedirectInput(to.val)))

expanded_word(w) == IF w.tag # "Ok" THEN w ELSE Ok(MetaWord(w.val))

expanded_assignment(var, val) ==
    IF var.tag # "Ok" THEN var
    ELSE IF val.tag # "Ok" THEN val
    ELSE Ok(MetaAssignment(var.val, val.val))

expand_meta(vs, meta) ==
    CASE meta.kind = "Redirect" ->
           IF meta.redirect.kind = "Output"
           THEN expanded_output(IF meta.redirect.from = None THEN None
                                ELSE Some(expand_word(vs, meta.redirect.from[1])),
                                expand_word(vs, meta.redirect.to),
                                meta.redirect.append)
           ELSE expanded_input(expand_word(vs, meta.redirect.to))
      [] meta.kind = "Word" -> expanded_word(expand_word(vs, meta.word))
      [] meta.kind = "Assignment" ->
           expanded_assignment(expand_word(vs, meta.var), expand_word(vs, meta.val))

\* vars.iter().position(|(v, _)| v == name), 0 when there is none.
RECURSIVE position(_, _, _)
position(vs, name, j) ==
    IF j > Len(vs) THEN 0
    ELSE IF vs[j][1] = name THEN j
    ELSE position(vs, name, j + 1)

\* vars after `if let Some(index) = ... { vars.remove(index); }` and the push.
upsert(vs, index, name, value) ==
    Append(IF index # 0 THEN remove(vs, index) ELSE vs, <<name, value>>)

RECURSIVE vars_prefixes(_, _, _)

\* The body of the loop of Command::vars, m being what expand_meta gave for
\* the assignment at prefix i.
vars_assignment(prefixes, i, vs, m) ==
    IF m.tag = "Panic" THEN m
    ELSE IF m.tag = "Err" THEN vars_prefixes(prefixes, i + 1, vs)
    ELSE vars_prefixes(prefixes, i + 1,
                       upsert(vs, position(vs, m.val.var.name, 1),
                              m.val.var.name, m.val.val.name))

\* The loop of Command::vars over the prefixes, from prefix i on.
vars_prefixes(prefixes, i, vs) ==
    IF i > Len(prefixes) THEN Ret(vs)
    ELSE IF prefixes[i].kind # "Assignment" THEN vars_prefixes(prefixes, i + 1, vs)
    ELSE vars_assignment(prefixes, i, vs, expand_meta(vs, prefixes[i]))

\* Command::vars, env being what std::env::vars() gives.
Command_vars(c, env) == vars_prefixes(c.prefixes, 1, env)

RECURSIVE expand_metas(_, _, _, _)

expand_metas_next(vs, metas, i, acc, m) ==
    IF m.tag # "Ok" THEN m ELSE expand_metas(vs, metas, i + 1, Append(acc, m.val))

\* `.into_iter().map(|m| expand_meta(&vars, m)).collect::<Result<Vec<_>>>()`
expand_metas(vs, metas, i, acc) ==
    IF i > Len(metas) THEN Ok(acc)
    ELSE expand_metas_next(vs, metas, i, acc, expand_meta(vs, metas[i]))

\* Ok(self) of Command::expand, or the first failure among the three.
expanded_command(name, prefixes, suffixes) ==
    IF name.tag # "Ok" THEN name
    ELSE IF prefixes.tag # "Ok" THEN prefixes
    ELSE IF suffixes.tag # "Ok" THEN suffixes
    ELSE Ok(Cmd(name.val, prefixes.val, suffixes.val))

\* Command::expand after self.vars() gave vs.
expand_with(c, vs) ==
    IF vs.tag = "Panic" THEN vs
    ELSE expanded_command(expand_word(vs.val, c.name),
                          expand_metas(vs.val, c.prefixes, 1, <<>>),
                          expand_metas(vs.val, c.suffixes, 1, <<>>))

Command_expand(c, env) == expand_with(c, Command_vars(c, env))

RECURSIVE expand_commands(_, _, _, _)

expand_commands_next(cmds, env, i, acc, c) ==
    IF c.tag # "Ok" THEN c ELSE expand_commands(cmds, env, i + 1, Append(acc, c.val))

\* `cmds.into_iter().map(|c| c.expand()).collect::<Result<Vec<_>>>()`
expand_commands(cmds, env, i, acc) ==
    IF i > Len(cmds) THEN Ok(acc)
    ELSE expand_commands_next(cmds, env, i, acc, Command_expand(cmds[i], env))

expanded_single(c) == IF c.tag # "Ok" THEN c ELSE Ok(Single(c.val))

expanded_pipeline(cs) == IF cs.tag # "Ok" THEN cs ELSE Ok(Pipeline(cs.val))

CommandType_expand(ct, env) ==
    IF ct.kind = "Single"
    THEN expanded_single(Command_expand(ct.cmd, env))
    ELSE expanded_pipeline(expand_commands(ct.cmds, env, 1, <<>>))

-----------------------------------------------------------------------------
(* Command::redirections *)

\* Every Output redirect with a `from` other than "2" taken as standard output.
redirect_target_unnumbered(redirect) ==
    IF redirect.kind = "Input" THEN "stdin"
    ELSE IF redirect.from # None /\ redirect.from[1].name = <<"2">> THEN "stderr"
    ELSE "stdout"

\* The arm of the match a redirect takes: which of the three it sets.
redirect_target(redirect) ==
    CASE redirect.kind = "Output" /\ redirect.from = None -> "stdout"
      [] redirect.kind = "Output" /\ redirect.from # None
           /\ redirect.from[1].name = <<"1">> -> "stdout"
      [] redirect.kind = "Output" /\ redirect.from # None
           /\ redirect.from[1].name = <<"2">> -> "stderr"
      [] redirect.kind = "Input" -> "stdin"
      [] OTHER -> "none"

\* The three redirects after the match on redirect, target being its arm.
redirect_set(found, redirect, target) ==
    CASE target = "stdin" -> <<Some(redirect), found[2], found[3]>>
      [] target = "stdout" -> <<found[1], Some(redirect), found[3]>>
      [] target = "stderr" -> <<found[1], found[2], Some(redirect)>>
      [] OTHER -> found

\* The loop over prefixes.chain(suffixes), from meta i on; found is
\* (stdin_redirect, stdout_redirect, stderr_redirect).
RECURSIVE redirections_from(_, _, _)
redirections_from(metas, i, found) ==
    IF i > Len(metas) THEN found
    ELSE IF metas[i].kind # "Redirect" THEN redirections_from(metas, i + 1, found)
    ELSE redirections_from(metas, i + 1,
                           redirect_set(found, metas[i].redirect,
                                        redirect_target(metas[i].redirect)))

Command_redirections(c) ==
    redirections_from(c.prefixes \o c.suffixes, 1, <<None, None, None>>)

-----------------------------------------------------------------------------
(* Inputs *)

\* Every sequence of at most n elements of S.
SeqsUpTo(S, n) == UNION {[1..k -> S] : k \in 0..n}

RECURSIVE concat(_)
concat(ss) == IF ss = <<>> THEN <<>> ELSE Head(ss) \o concat(Tail(ss))

\* The tokens a run is drawn from.
TokenPool ==
    { TString(<<"a">>), TString(<<"b", "=", "c">>),
      TSingleQuotedString(<<"b", "=", "c">>, TRUE),
      TDoubleQuotedString(<<"a">>, FALSE),
      TRedirectOutput(Some(<<"2">>), <<"f">>, None, FALSE),
      TRedirectInput(<<"f">>),
      TSpace, TPipe, TSemicolon, TAnd, TOr, TAmpersand }

\* The token runs the tokenizer can give: it never splits an unquoted string
\* in two, and only the last quote of a line can be left open.
TokenRuns ==
    { ts \in SeqsUpTo(TokenPool, MaxTokens) :
        /\ \A i \in 1..(Len(ts) - 1) : ~(ts[i].t = "String" /\ ts[i + 1].t = "String")
        /\ \A i \in 1..(Len(ts) - 1) :
              ts[i].t \in {"SingleQuotedString", "DoubleQuotedString"} => ts[i].closed }

\* The characters the scanned words are made of.
ScanChars == {"~", "a", "/", "=", " ", "*", "$", "(", ")", "POUND"}
ScanTexts == SeqsUpTo(ScanChars, MaxWordLen)
ExpansionTypes == {"All", "VariablesAndCommands", "None"}

\* The pieces the resolved words are made of.
ResolvePieces ==
    { <<"$", "a">>, <<"$", "b">>, <<"~">>, <<"/">>, <<"*">>, <<"$", "(", "c", ")">> }
ResolveTexts == {concat(ps) : ps \in SeqsUpTo(ResolvePieces, MaxPieces)}

\* The prefix assignments of a command, one String token each.
AssignmentValues == {<<>>, <<"x">>, <<"$", "a">>, <<"*">>}
AssignmentTokens ==
    {TString(<<n, "=">> \o v) : n \in {"a", "b"}, v \in AssignmentValues}

\* The tokens of the command `c` after the assignments of the run.
RECURSIVE assigned(_)
assigned(run) ==
    IF run = <<>> THEN <<TString(<<"c">>)>>
    ELSE <<Head(run), TSpace>> \o assigned(Tail(run))

\* The tokens of a command with redirections.
RedirectPool ==
    {TRedirectOutput(from, to, None, FALSE) :
        from \in {None, Some(<<"1">>), Some(<<"2">>), Some(<<"3">>)},
        to \in {<<"f">>, <<"g">>}}
    \cup {TRedirectInput(<<"f">>), TRedirectInput(<<"g">>), TString(<<"c">>)}

RedirectRuns ==
    { ts \in SeqsUpTo(RedirectPool, MaxTokens) :
        \A i \in 1..(Len(ts) - 1) : ~(ts[i].t = "String" /\ ts[i + 1].t = "String") }

\* The texts with nested command substitutions: a prefix, `$(` repeated,
\* a payload, and `)` repeated no more often than `$(`.
RECURSIVE repeat(_, _)
repeat(piece, n) == IF n = 0 THEN <<>> ELSE piece \o repeat(piece, n - 1)

NestedTexts ==
    UNION { { prefix \o repeat(<<"$", "(">>, d) \o payload \o repeat(<<")">>, k) :
                prefix \in {<<>>, <<"a">>, <<"~">>, <<"POUND">>, <<"~", "/">>,
                             <<"$", "a">>},
                payload \in {<<>>, <<"a">>},
                k \in 0..d } : d \in 0..MaxNesting }

\* The binding sets: (name, value) pairs in order, a name possibly bound
\* more than once.
BindingPairs == {<<"a">>, <<"b">>} \X {<<>>, <<"x", "y", "z">>}
BindingSets == SeqsUpTo(BindingPairs, MaxBindings)

\* The input lines.
LineChars == {"a", " ", ";", "|", "'"}
Lines == SeqsUpTo(LineChars, MaxLine)

-----------------------------------------------------------------------------
(* Operations *)

\* parse_tokens on the token run.
ParseTokens ==
    /\ pc = "tokens"
    /\ tree' = parse_tokens(tokens)
    /\ pc' = "parsed"
    /\ UNCHANGED <<tokens, text, mode, word, bindings, resolved, expanded, line,
                   rendered, rendered2, cmdvars, redirs,
                   frames, state>>

\* CommandType::expand on each command of the tree, in the environment bindings.
ExpandTree ==
    /\ pc = "parsed"
    /\ tree.tag = "Ret"
    /\ expanded' = [i \in 1..Len(tree.val.commands) |->
                        CommandType_expand(tree.val.commands[i], bindings)]
    /\ pc' = "expanded"
    /\ UNCHANGED <<tokens, tree, text, mode, word, bindings, resolved, line,
                   rendered, rendered2, cmdvars, redirs,
                   frames, state>>

\* parse_word on the text.
ParseWord ==
    /\ pc = "text"
    /\ word' = parse_word(text, mode)
    /\ pc' = "scanned"
    /\ UNCHANGED <<tokens, tree, text, mode, bindings, resolved, expanded, line,
                   rendered, rendered2, cmdvars, redirs,
                   frames, state>>

\* expand_word on the scanned word.
ExpandWord ==
    /\ pc = "scanned"
    /\ word.tag = "Ret"
    /\ resolved' = expand_word_run(bindings, word.val)
    /\ pc' = "tokens"
    /\ UNCHANGED <<tokens, tree, text, mode, word, bindings, expanded, line,
                   rendered, rendered2, cmdvars, redirs,
                   frames, state>>

\* parse on the input line.
ParseLine ==
    /\ pc = "line"
    /\ tree' = parse(line)
    /\ pc' = "parsed line"
    /\ UNCHANGED <<tokens, text, mode, word, bindings, resolved, expanded, line,
                   rendered, rendered2, cmdvars, redirs,
                   frames, state>>

\* SyntaxTree::to_string on the parsed line.
Render ==
    /\ pc = "parsed line"
    /\ tree.tag = "Ret"
    /\ rendered' = SyntaxTree_to_string(tree.val)
    /\ pc' = "rendered"
    /\ UNCHANGED <<tokens, tree, text, mode, word, bindings, resolved, expanded,
                   line, rendered2, cmdvars, redirs,
                   frames, state>>

\* parse on the rendering.
Reparse ==
    /\ pc = "rendered"
    /\ tree' = parse(rendered)
    /\ pc' = "reparsed"
    /\ UNCHANGED <<tokens, text, mode, word, bindings, resolved, expanded, line,
                   rendered, rendered2, cmdvars, redirs,
                   frames, state>>

\* SyntaxTree::to_string on the re-parsed rendering.
Rerender ==
    /\ pc = "reparsed"
    /\ tree.tag = "Ret"
    /\ rendered2' = SyntaxTree_to_string(tree.val)
    /\ pc' = "rerendered"
    /\ UNCHANGED <<tokens, tree, text, mode, word, bindings, resolved, expanded,
                   line, rendered, cmdvars, redirs,
                   frames, state>>

\* Command::vars on the first command of the tree, std::env::vars() giving
\* bindings.
Vars ==
    /\ pc = "parsed"
    /\ tree.tag = "Ret"
    /\ tree.val.commands # <<>>
    /\ tree.val.commands[1].kind = "Single"
    /\ cmdvars' = Command_vars(tree.val.commands[1].cmd, bindings)
    /\ pc' = "vars"
    /\ UNCHANGED <<tokens, tree, text, mode, word, bindings, resolved, expanded,
                   line, rendered, rendered2, redirs,
                   frames, state>>

\* Command::redirections on the first command of the tree.
Redirections ==
    /\ pc = "parsed"
    /\ tree.tag = "Ret"
    /\ tree.val.commands # <<>>
    /\ tree.val.commands[1].kind = "Single"
    /\ redirs' = Command_redirections(tree.val.commands[1].cmd)
    /\ pc' = "redirections"
    /\ UNCHANGED <<tokens, tree, text, mode, word, bindings, resolved, expanded,
                   line, rendered, rendered2, cmdvars,
                   frames, state>>

\* Command::expand on the command whose vars() was taken, in the same
\* environment.
Expand ==
    /\ pc = "vars"
    /\ expanded' = Command_expand(tree.val.commands[1].cmd, bindings)
    /\ pc' = "expanded"
    /\ UNCHANGED <<tokens, tree, text, mode, word, bindings, resolved, line,
                   rendered, rendered2, cmdvars, redirs,
                   frames, state>>

-----------------------------------------------------------------------------
(* The scanner, one loop iteration at a time *)

\* A call of parse_word(s, expand) of which p characters are consumed, at
\* the outer loop ("word") or at the inner loop of the Parameter, Command or
\* Glob arm, with the nested_level and subcmd of the Command arm.
Frame(s, expand) ==
    [kind |-> "call", s |-> s, expand |-> expand, p |-> 0, at |-> "word",
     nested_level |-> 0, subcmd |-> <<>>]

\* The place where parse_tokens or parse_command aborts.
Abort == [kind |-> "abort"]

\* The parse_word calls that parse_tokens makes for a token run, in order,
\* from token i on; named says that the stage has its name, any that it
\* holds a token. The list ends with Abort where a todo!() or a panic!()
\* is met.
RECURSIVE calls_from(_, _, _, _)
calls_from(toks, i, named, any) ==
    IF i > Len(toks) THEN (IF any /\ ~named THEN <<Abort>> ELSE <<>>)
    ELSE
    CASE toks[i].t \in {"Semicolon", "Pipe"} ->
           IF any /\ ~named THEN <<Abort>> ELSE calls_from(toks, i + 1, FALSE, FALSE)
      [] toks[i].t \in {"And", "Or", "Ampersand"} -> <<Abort>>
      [] toks[i].t = "String" ->
           IF find_if_prefix(toks[i].s, ~named) # 0
           THEN <<Frame(SubSeq(toks[i].s, 1, find_if_prefix(toks[i].s, ~named) - 1),
                        "None"),
                  Frame(SubSeq(toks[i].s, find_if_prefix(toks[i].s, ~named) + 1,
                               Len(toks[i].s)), "All")>>
                \o calls_from(toks, i + 1, named, TRUE)
           ELSE <<Frame(toks[i].s, "All")>> \o calls_from(toks, i + 1, TRUE, TRUE)
      [] toks[i].t = "SingleQuotedString" ->
           IF toks[i].closed
           THEN <<Frame(toks[i].s, "None")>> \o calls_from(toks, i + 1, TRUE, TRUE)
           ELSE calls_from(toks, i + 1, named, TRUE)
      [] toks[i].t = "DoubleQuotedString" ->
           IF toks[i].closed
           THEN <<Frame(toks[i].s, "VariablesAndCommands")>>
                \o calls_from(toks, i + 1, TRUE, TRUE)
           ELSE calls_from(toks, i + 1, named, TRUE)
      [] OTHER -> calls_from(toks, i + 1, named, TRUE)

\* The parse_word calls of parse(subcmd).
calls(subcmd) == calls_from(lex(subcmd, FALSE), 1, FALSE, FALSE)

\* chars.peek() in the place of chars.next(): no character is consumed.
peeked(p) == p

\* chars.next(): one more character is consumed.
advance(p) == p + 1

\* The frame after `let ast = parse(subcmd)` returned.
called(f) == [f EXCEPT !.at = "word", !.subcmd = <<>>, !.nested_level = 0]

Running == pc = "scanning" /\ frames # <<>> /\ frames[1].kind = "call"

Steps(f) ==
    /\ frames' = <<f>> \o Tail(frames)
    /\ UNCHANGED <<pc, tokens, tree, text, mode, word, bindings, resolved, expanded,
                   line, rendered, rendered2, cmdvars, redirs, state>>

Aborts ==
    /\ frames' = <<>>
    /\ pc' = "aborted"
    /\ UNCHANGED <<tokens, tree, text, mode, word, bindings, resolved, expanded,
                   line, rendered, rendered2, cmdvars, redirs, state>>

\* parse_word(text, mode) is called.
Enter ==
    /\ pc = "text"
    /\ frames' = <<Frame(text, mode)>>
    /\ pc' = "scanning"
    /\ UNCHANGED <<tokens, tree, text, mode, word, bindings, resolved, expanded,
                   line, rendered, rendered2, cmdvars, redirs, state>>

\* `if let ExpansionType::None = expand { return ... }`, and the return at
\* the end of the outer loop.
Return ==
    /\ Running
    /\ frames[1].at = "word"
    /\ frames[1].expand = "None" \/ frames[1].p >= Len(frames[1].s)
    /\ frames' = Tail(frames)
    /\ pc' = IF Tail(frames) = <<>> THEN "returned" ELSE pc
    /\ UNCHANGED <<tokens, tree, text, mode, word, bindings, resolved, expanded,
                   line, rendered, rendered2, cmdvars, redirs, state>>

\* One iteration of `while let Some(ch) = chars.next()` up to the inner loop
\* of the arm it takes.
OuterStep ==
    /\ Running
    /\ frames[1].at = "word"
    /\ frames[1].expand # "None"
    /\ frames[1].p < Len(frames[1].s)
    /\ LET f == frames[1]
           ch == f.s[f.p + 1]
           peek == IF f.p + 1 < Len(f.s) THEN Some(f.s[f.p + 2]) ELSE None
       IN  CASE ch = "$" /\ peek # None /\ is_valid_first_character_of_expansion(peek[1]) ->
                  Steps([f EXCEPT !.p = advance(advance(f.p)), !.at = "param"])
             [] ch = "$" /\ peek = Some("(") ->
                  Steps([f EXCEPT !.p = advance(advance(f.p)), !.at = "command"])
             [] ch = "$" -> Aborts
             [] ch = "*" /\ f.expand = "All" ->
                  Steps([f EXCEPT !.p = advance(f.p), !.at = "glob"])
             [] OTHER -> Steps([f EXCEPT !.p = advance(f.p)])

\* One iteration of the inner loop of the Parameter arm, or its end.
ParameterStep ==
    /\ Running
    /\ frames[1].at = "param"
    /\ LET f == frames[1]
       IN  IF f.p < Len(f.s) /\ is_valid_first_character_of_expansion(f.s[f.p + 1])
           THEN Steps([f EXCEPT !.p = advance(f.p)])
           ELSE Steps([f EXCEPT !.at = "word"])

\* One iteration of the inner loop of the Command arm.
CommandStep ==
    /\ Running
    /\ frames[1].at = "command"
    /\ frames[1].p < Len(frames[1].s)
    /\ LET f == frames[1]
           next == f.s[f.p + 1]
           level == IF next = "$" /\ f.p + 1 < Len(f.s) /\ f.s[f.p + 2] = "("
                    THEN f.nested_level + 1 ELSE f.nested_level
       IN  IF next = ")" /\ level = 0
           THEN Steps([f EXCEPT !.p = advance(f.p), !.at = "parse"])
           ELSE Steps([f EXCEPT !.p = advance(f.p),
                                !.nested_level = IF next = ")" THEN level - 1 ELSE level,
                                !.subcmd = Append(f.subcmd, next)])

\* `let ast = parse(subcmd)`: the calls of parse_word it makes are taken up,
\* the first of them first.
Call ==
    /\ Running
    /\ \/ frames[1].at = "parse"
       \/ frames[1].at = "command" /\ frames[1].p >= Len(frames[1].s)
    /\ frames' = calls(frames[1].subcmd) \o <<called(frames[1])>> \o Tail(frames)
    /\ UNCHANGED <<pc, tokens, tree, text, mode, word, bindings, resolved, expanded,
                   line, rendered, rendered2, cmdvars, redirs, state>>

\* One iteration of the inner loop of the Glob arm, or its end.
GlobStep ==
    /\ Running
    /\ frames[1].at = "glob"
    /\ LET f == frames[1]
       IN  IF f.p < Len(f.s) /\ f.s[f.p + 1] \notin {" ", "/"}
           THEN Steps([f EXCEPT !.p = advance(f.p)])
           ELSE Steps([f EXCEPT !.at = "word"])

\* A todo!() or panic!() of parse_tokens or parse_command is met.
Panics ==
    /\ pc = "scanning" /\ frames # <<>> /\ frames[1].kind = "abort"
    /\ Aborts

-----------------------------------------------------------------------------
(* read_line *)

\* The table of crate::config: each abbreviation and what it expands to.
ABBREVIATIONS == << <<<<"a">>, <<"b", "b">>>>, <<<<"b", "a">>, <<"b">>>> >>

\* String::insert_str(idx, string), and String::insert(idx, ch) for a string
\* of one character.
insert_str(s, idx, string) ==
    IF ~is_char_boundary(s, idx)
    THEN Panic("assertion failed: self.is_char_boundary(idx)")
    ELSE Ret(SubSeq(s, 1, CharsBefore(s, idx)) \o string
             \o SubSeq(s, CharsBefore(s, idx) + 1, Len(s)))

\* &s[begin..]: begin is what a subtraction on usize gave when it is below 0.
slice_from(s, begin) ==
    IF begin < 0 THEN Panic("attempt to subtract with overflow")
    ELSE IF ~is_char_boundary(s, begin)
    THEN Panic("byte index is not a char boundary")
    ELSE Ret(SubSeq(s, CharsBefore(s, begin) + 1, Len(s)))

\* String::remove(idx)
String_remove(s, idx) ==
    IF idx >= len(s) \/ ~is_char_boundary(s, idx)
    THEN Panic("cannot remove a char from the end of a string")
    ELSE Ret(SubSeq(s, 1, CharsBefore(s, idx)) \o SubSeq(s, CharsBefore(s, idx) + 2, Len(s)))

\* s.chars().nth(i)
nth(s, i) == IF i < Len(s) THEN Some(s[i + 1]) ELSE None

\* str::starts_with
starts_with(s, prefix) == Len(prefix) <= Len(s) /\ SubSeq(s, 1, Len(prefix)) = prefix

\* expand_abbreviation from entry k of the table on: None, or Some of the
\* expanded line and diff.
RECURSIVE expand_abbreviation_from(_, _, _)
expand_abbreviation_from(l, only_if_equal, k) ==
    IF k > Len(ABBREVIATIONS) THEN None
    ELSE IF \/ l = ABBREVIATIONS[k][1]
            \/ ~only_if_equal /\ starts_with(l, ABBREVIATIONS[k][1] \o <<" ">>)
    THEN Some([line |-> ABBREVIATIONS[k][2]
                          \o SubSeq(l, Len(ABBREVIATIONS[k][1]) + 1, Len(l)),
               diff |-> len(ABBREVIATIONS[k][2]) - len(ABBREVIATIONS[k][1])])
    ELSE expand_abbreviation_from(l, only_if_equal, k + 1)

expand_abbreviation(l, only_if_equal) == expand_abbreviation_from(l, only_if_equal, 1)

has_abbreviation(cmd) == \E k \in 1..Len(ABBREVIATIONS) : ABBREVIATIONS[k][1] = cmd

\* The index after the abbreviation grew or shrank the line by diff.
shifted(index, diff) ==
    IF diff >= 0 THEN index + diff
    ELSE IF index >= -diff THEN index - (-diff) ELSE 0

\* `for i in (0..state.index).rev()`: the last i below index where
\* chars().nth(i) is a space, from i down.
RECURSIVE space_before(_, _)
space_before(l, i) ==
    IF i < 0 THEN None
    ELSE IF nth(l, i) = Some(" ") THEN Some(i)
    ELSE space_before(l, i - 1)

\* The space_index of the ^W arm.
space_index(l, index) ==
    IF nth(l, index - 1) = Some(" ") THEN 0
    ELSE IF space_before(l, index - 1) = None THEN 0
    ELSE space_before(l, index - 1)[1]

\* The State after construction.
State ==
    [line |-> <<>>, index |-> 0, about_to_exit |-> FALSE, cancelled |-> FALSE,
     cleared |-> FALSE, highlight_abbreviations |-> TRUE,
     status |-> "run", events |-> 0]

\* The handler aborted the process.
panicked(st) == [st EXCEPT !.status = "panic"]

\* The state after the line was set to what r gave, or after r panicked.
with_line(st, r, index) ==
    IF r.tag = "Panic" THEN panicked(st)
    ELSE [st EXCEPT !.line = r.val, !.index = index]

\* The state once s is sliced from begin for printing it.
printed_from(st, begin) ==
    IF st.status = "panic" THEN st
    ELSE IF slice_from(st.line, begin).tag = "Panic" THEN panicked(st)
    ELSE st

\* `if has_abbreviation(&state.line) { state.highlight_abbreviations = true; }`
highlighted(st) ==
    IF st.status # "panic" /\ has_abbreviation(st.line)
    THEN [st EXCEPT !.highlight_abbreviations = TRUE]
    ELSE st

\* state.line.insert(state.index, c); state.index += 1;
inserted(st, c) == with_line(st, insert_str(st.line, st.index, <<c>>), st.index + 1)

\* The abbreviation arm of the separator keys: the line is expanded when it
\* holds no space and is an abbreviation.
abbreviated(st, e) ==
    IF find(st.line, " ", 1) # 0 \/ e = None THEN st
    ELSE [st EXCEPT !.line = e[1].line, !.index = shifted(st.index, e[1].diff)]

\* The loop of read_line takes an event.
Reading ==
    /\ pc = "reading"
    /\ state.status = "run"
    /\ ~state.about_to_exit /\ ~state.cleared
    /\ state.events < MaxEvents

Handled(st) ==
    /\ state' = [st EXCEPT !.events = state.events + 1]
    /\ UNCHANGED <<pc, tokens, tree, text, mode, word, bindings, resolved, expanded,
                   line, rendered, rendered2, cmdvars, redirs, frames>>

\* What is typed, pasted and found in the history.
KeyChars == {"a", "b", "POUND"}
Separators == {" ", "|", ";"}
Pastes == {<<>>, <<"a">>, <<"b", " ">>, <<"POUND">>}
HistoryLines == {<<"a", "b">>, <<"a", " ", "POUND">>}

\* Event::Paste(s)
Paste ==
    /\ Reading
    /\ \E s \in Pastes :
         Handled(printed_from(with_line(state, insert_str(state.line, state.index, s),
                                        state.index + len(s)),
                              state.index + len(s) - 1))

\* ^C
KeyCtrlC ==
    /\ Reading
    /\ Handled(IF state.line = <<>> THEN state
               ELSE [state EXCEPT !.about_to_exit = TRUE, !.cancelled = TRUE])

\* Enter
KeyEnter ==
    /\ Reading
    /\ Handled([state EXCEPT
                   !.line = IF expand_abbreviation(state.line, TRUE) = None THEN @
                            ELSE expand_abbreviation(state.line, TRUE)[1].line,
                   !.about_to_exit = TRUE])

\* ^D
KeyCtrlD ==
    /\ Reading
    /\ Handled(IF state.line # <<>> THEN state ELSE [state EXCEPT !.status = "exit"])

\* Up and ^P, Down and ^N: the line is what the history gives, or is empty.
KeyHistory ==
    /\ Reading
    /\ \E l \in HistoryLines \cup {<<>>} :
         Handled([state EXCEPT !.line = l, !.index = len(l)])

\* ^U
KeyCtrlU ==
    /\ Reading
    /\ Handled([state EXCEPT !.line = <<>>, !.index = 0])

\* ^W
KeyCtrlW ==
    /\ Reading
    /\ Handled(IF state.index = 0 THEN state
               ELSE highlighted(
                        with_line(state,
                                  IF space_index(state.line, state.index) > state.index
                                  THEN Panic("slice index starts after its end")
                                  ELSE replace_range(state.line,
                                                     space_index(state.line, state.index),
                                                     state.index - 1, <<>>),
                                  space_index(state.line, state.index))))

\* ^L
KeyCtrlL ==
    /\ Reading
    /\ Handled([state EXCEPT !.cleared = TRUE])

\* Left and ^B
KeyLeft ==
    /\ Reading
    /\ Handled(IF state.index > 0 THEN [state EXCEPT !.index = @ - 1] ELSE state)

\* Right and ^F
KeyRight ==
    /\ Reading
    /\ Handled(IF state.index < len(state.line) THEN [state EXCEPT !.index = @ + 1]
               ELSE state)

\* A space, `|` or `;`
KeySeparator ==
    /\ Reading
    /\ \E c \in Separators :
         Handled(highlighted(
                     inserted(abbreviated(state, expand_abbreviation(state.line, FALSE)),
                              c)))

\* ^Space
KeyCtrlSpace ==
    /\ Reading
    /\ Handled([inserted(state, " ") EXCEPT !.highlight_abbreviations = FALSE])

\* Any other character
KeyChar ==
    /\ Reading
    /\ \E c \in KeyChars : Handled(inserted(state, c))

\* Backspace
KeyBackspace ==
    /\ Reading
    /\ Handled(IF state.index = 0 THEN state
               ELSE highlighted(with_line(state,
                                          String_remove(state.line, state.index - 1),
                                          state.index - 1)))

-----------------------------------------------------------------------------
(* Specifications *)

\* The parser on every token run.
Init ==
    /\ pc = "tokens"
    /\ tokens \in TokenRuns
    /\ tree = Unset /\ text = Unset /\ mode = Unset /\ word = Unset
    /\ bindings = Unset /\ resolved = Unset /\ expanded = Unset
    /\ line = Unset /\ rendered = Unset /\ rendered2 = Unset
    /\ cmdvars = Unset /\ redirs = Unset /\ frames = Unset /\ state = Unset

Next == ParseTokens

Spec == Init /\ [][Next]_vars

\* The scanner on every text, in every expansion mode.
InitScanner ==
    /\ pc = "text"
    /\ text \in ScanTexts
    /\ mode \in ExpansionTypes
    /\ tokens = Unset /\ tree = Unset /\ word = Unset
    /\ bindings = Unset /\ resolved = Unset /\ expanded = Unset
    /\ line = Unset /\ rendered = Unset /\ rendered2 = Unset
    /\ cmdvars = Unset /\ redirs = Unset /\ frames = Unset /\ state = Unset

NextScanner == ParseWord

SpecScanner == InitScanner /\ [][NextScanner]_vars

\* The parser on one token of every kind of quoting and every text, alone
\* and followed by a command name.
QuotingTokens ==
    {TString(t) : t \in {x \in ScanTexts : x # <<>> /\ find(x, " ", 1) = 0}}
    \cup {TSingleQuotedString(t, TRUE) : t \in ScanTexts}
    \cup {TDoubleQuotedString(t, TRUE) : t \in ScanTexts}

InitQuoting ==
    /\ pc = "tokens"
    /\ tokens \in {<<tok>> : tok \in QuotingTokens}
                  \cup {<<tok, TSpace, TString(<<"a">>)>> : tok \in QuotingTokens}
    /\ tree = Unset /\ text = Unset /\ mode = Unset /\ word = Unset
    /\ bindings = Unset /\ resolved = Unset /\ expanded = Unset
    /\ line = Unset /\ rendered = Unset /\ rendered2 = Unset
    /\ cmdvars = Unset /\ redirs = Unset /\ frames = Unset /\ state = Unset

NextQuoting == ParseTokens

SpecQuoting == InitQuoting /\ [][NextQuoting]_vars

\* Command::vars on every command with at most MaxAssignments prefix
\* assignments, in every environment.
InitVars ==
    /\ pc = "tokens"
    /\ tokens \in {assigned(run) : run \in SeqsUpTo(AssignmentTokens, MaxAssignments)}
    /\ bindings \in BindingSets
    /\ tree = Unset /\ text = Unset /\ mode = Unset /\ word = Unset
    /\ resolved = Unset /\ expanded = Unset
    /\ line = Unset /\ rendered = Unset /\ rendered2 = Unset
    /\ cmdvars = Unset /\ redirs = Unset /\ frames = Unset /\ state = Unset

NextVars == ParseTokens \/ Vars

SpecVars == InitVars /\ [][NextVars]_vars

\* Command::vars and then Command::expand on every command of up to
\* MaxAssignments assignments, in every environment.
InitAssignments == InitVars

NextAssignments == ParseTokens \/ Vars \/ Expand

SpecAssignments == InitAssignments /\ [][NextAssignments]_vars

\* parse_word, one loop iteration at a time, on the texts of nested command
\* substitutions and on every text of up to MaxWordLen of the characters the
\* loops tell apart. The program runs on as long as it has a step to take.
StepChars == {"a", "$", "(", ")", "*", "/", " "}

StepTexts == NestedTexts \cup SeqsUpTo(StepChars, MaxWordLen)

InitSteps ==
    /\ pc = "text"
    /\ text \in StepTexts
    /\ mode \in ExpansionTypes
    /\ tokens = Unset /\ tree = Unset /\ word = Unset /\ bindings = Unset
    /\ resolved = Unset /\ expanded = Unset
    /\ line = Unset /\ rendered = Unset /\ rendered2 = Unset
    /\ cmdvars = Unset /\ redirs = Unset /\ frames = <<>> /\ state = Unset

NextSteps ==
    \/ Enter \/ Return \/ OuterStep \/ ParameterStep \/ CommandStep \/ Call
    \/ GlobStep \/ Panics

SpecSteps == InitSteps /\ [][NextSteps]_vars /\ WF_vars(NextSteps)

\* read_line on every sequence of up to MaxEvents events.
InitInput ==
    /\ pc = "reading"
    /\ state = State
    /\ tokens = Unset /\ tree = Unset /\ text = Unset /\ mode = Unset
    /\ word = Unset /\ bindings = Unset /\ resolved = Unset /\ expanded = Unset
    /\ line = Unset /\ rendered = Unset /\ rendered2 = Unset
    /\ cmdvars = Unset /\ redirs = Unset /\ frames = Unset

NextInput ==
    \/ Paste \/ KeyCtrlC \/ KeyEnter \/ KeyCtrlD \/ KeyHistory \/ KeyCtrlU
    \/ KeyCtrlW \/ KeyCtrlL \/ KeyLeft \/ KeyRight \/ KeySeparator
    \/ KeyCtrlSpace \/ KeyChar \/ KeyBackspace

SpecInput == InitInput /\ [][NextInput]_vars

\* Command::redirections on every command made of redirections and a name.
InitRedirections ==
    /\ pc = "tokens"
    /\ tokens \in RedirectRuns
    /\ tree = Unset /\ text = Unset /\ mode = Unset /\ word = Unset
    /\ bindings = Unset /\ resolved = Unset /\ expanded = Unset
    /\ line = Unset /\ rendered = Unset /\ rendered2 = Unset
    /\ cmdvars = Unset /\ redirs = Unset /\ frames = Unset /\ state = Unset

NextRedirections == ParseTokens \/ Redirections

SpecRedirections == InitRedirections /\ [][NextRedirections]_vars

\* The scanner on every text with nested command substitutions.
InitNesting ==
    /\ pc = "text"
    /\ text \in NestedTexts
    /\ mode \in ExpansionTypes
    /\ tokens = Unset /\ tree = Unset /\ word = Unset
    /\ bindings = Unset /\ resolved = Unset /\ expanded = Unset
    /\ line = Unset /\ rendered = Unset /\ rendered2 = Unset
    /\ cmdvars = Unset /\ redirs = Unset /\ frames = Unset /\ state = Unset

NextNesting == ParseWord

SpecNesting == InitNesting /\ [][NextNesting]_vars

\* The resolver on every unquoted word and binding set: on the word alone,
\* then on the command `c <word>`.
InitResolver ==
    /\ pc = "text"
    /\ text \in ResolveTexts
    /\ mode = "All"
    /\ bindings \in BindingSets
    /\ tokens = <<TString(<<"c">>), TSpace, TString(text)>>
    /\ tree = Unset /\ word = Unset /\ resolved = Unset /\ expanded = Unset
    /\ line = Unset /\ rendered = Unset /\ rendered2 = Unset
    /\ cmdvars = Unset /\ redirs = Unset /\ frames = Unset /\ state = Unset

NextResolver == ParseWord \/ ExpandWord \/ ParseTokens \/ ExpandTree

SpecResolver == InitResolver /\ [][NextResolver]_vars

\* Parse, render, parse again, render again, on every line.
InitRender ==
    /\ pc = "line"
    /\ line \in Lines
    /\ tokens = Unset /\ tree = Unset /\ text = Unset /\ mode = Unset
    /\ word = Unset /\ bindings = Unset /\ resolved = Unset /\ expanded = Unset
    /\ rendered = Unset /\ rendered2 = Unset
    /\ cmdvars = Unset /\ redirs = Unset /\ frames = Unset /\ state = Unset

NextRender == ParseLine \/ Render \/ Reparse \/ Rerender

SpecRender == InitRender /\ [][NextRender]_vars

-----------------------------------------------------------------------------
(* Properties of the parser *)

\* The stages of a token run that hold a token, in order: the runs between
\* semicolons, each cut at its pipes.
RECURSIVE StagesOf(_, _)
StagesOf(groups, i) ==
    IF i > Len(groups) THEN <<>>
    ELSE SelectSeq(split(groups[i], "Pipe"), LAMBDA st : st # <<>>)
         \o StagesOf(groups, i + 1)

Stages(toks) == StagesOf(split(toks, "Semicolon"), 1)

\* The commands of a tree, in order.
RECURSIVE CommandsOf(_, _)
CommandsOf(cts, i) ==
    IF i > Len(cts) THEN <<>>
    ELSE (IF cts[i].kind = "Single" THEN <<cts[i].cmd>> ELSE cts[i].cmds)
         \o CommandsOf(cts, i + 1)

Commands(t) == CommandsOf(t.commands, 1)

\* A token that gives a stage its command name when none is set yet.
NamesCommand(tok) ==
    \/ tok.t = "String" /\ find(tok.s, "=", 1) = 0
    \/ tok.t \in {"SingleQuotedString", "DoubleQuotedString"} /\ tok.closed

HasName(stage, i) == \E j \in 1..(i - 1) : NamesCommand(stage[j])

Parsed == pc = "parsed" /\ tree.tag = "Ret"

\* C1: in every tree parse_tokens returns, every Pipeline holds at least two
\* commands; a group yielding one command is a Single.
C1_PipelineHoldsTwo ==
    Parsed =>
        \A i \in 1..Len(tree.val.commands) :
            tree.val.commands[i].kind = "Pipeline"
                => Len(tree.val.commands[i].cmds) >= 2

\* C2: in every tree parse_tokens returns, a String token holding `=` that
\* comes after the command name of its stage is a Word among the suffixes of
\* that stage's command, no suffix is an Assignment, and every Assignment
\* among the prefixes is a String token that came before the name.
C2_AssignmentOnlyBeforeName ==
    Parsed =>
        /\ Len(Commands(tree.val)) = Len(Stages(tokens))
        /\ \A k \in 1..Len(Stages(tokens)) :
             LET stage == Stages(tokens)[k]
                 cmd == Commands(tree.val)[k]
             IN  /\ \A i \in 1..Len(stage) :
                        (stage[i].t = "String" /\ find(stage[i].s, "=", 1) # 0
                            /\ HasName(stage, i))
                        => \E j \in 1..Len(cmd.suffixes) :
                               /\ cmd.suffixes[j].kind = "Word"
                               /\ cmd.suffixes[j].word.name = stage[i].s
                 /\ \A j \in 1..Len(cmd.suffixes) : cmd.suffixes[j].kind # "Assignment"
                 /\ \A j \in 1..Len(cmd.prefixes) :
                        cmd.prefixes[j].kind = "Assignment"
                        => \E i \in 1..Len(stage) :
                               /\ stage[i].t = "String" /\ ~HasName(stage, i)
                               /\ stage[i].s = cmd.prefixes[j].var.name \o <<"=">>
                                                 \o cmd.prefixes[j].val.name

\* A tree whose command has a `=` string after its name, and an assignment
\* before it.
C2_Witness ==
    /\ Parsed
    /\ \E k \in 1..Len(Stages(tokens)) :
         /\ \E i \in 1..Len(Stages(tokens)[k]) :
               /\ Stages(tokens)[k][i].t = "String"
               /\ find(Stages(tokens)[k][i].s, "=", 1) # 0
               /\ HasName(Stages(tokens)[k], i)
         /\ Len(Commands(tree.val)[k].suffixes) > 0
         /\ Len(Commands(tree.val)[k].prefixes) > 0

\* C4: when a token run holds an And, Or or Ampersand token, parse_tokens
\* gives an error value to its caller and does not abort.
C4_UnsupportedIsError ==
    (pc = "parsed" /\ \E i \in 1..Len(tokens) : tokens[i].t \in {"And", "Or", "Ampersand"})
        => tree.tag = "Err"

\* C5: when a stage holding tokens yields no command name, parse_tokens
\* gives an error value to its caller and does not abort.
C5_NoNameIsError ==
    (pc = "parsed"
        /\ (\A i \in 1..Len(tokens) : tokens[i].t \notin {"And", "Or", "Ampersand"})
        /\ (\E k \in 1..Len(Stages(tokens)) :
               ~HasName(Stages(tokens)[k], Len(Stages(tokens)[k]) + 1)))
        => tree.tag = "Err"

-----------------------------------------------------------------------------
(* Properties of the resolver *)

Resolved == resolved # Unset

\* The expansions of the scanned word that are of one of the kinds.
Carries(kinds) == \E i \in 1..Len(word.val.expansions) : word.val.expansions[i].kind \in kinds

\* The entries of the binding set that bind name.
Entries(name) == {j \in 1..Len(bindings) : bindings[j][1] = name}

\* sub occurs in s.
Contains(s, sub) ==
    \E i \in 0..(Len(s) - Len(sub)) : SubSeq(s, i + 1, i + Len(sub)) = sub

\* C3: every replace_range of expand_word is applied to a range that lies
\* within the word text as it is at that moment.
C3_ReplaceInBounds ==
    Resolved =>
        \A k \in 1..Len(resolved.ops) :
            /\ resolved.ops[k].start <= resolved.ops[k].end + 1
            /\ resolved.ops[k].end + 1 <= len(resolved.ops[k].text)

\* C6: resolving a word that carries a Command or a Glob expansion gives
\* Err(Error::Unimplemented), whatever the binding set and the other
\* expansions are, and CommandType::expand gives that error for the command
\* holding the word.
C6_UnimplementedIsError ==
    /\ (Resolved /\ Carries({"Command", "Glob"}))
          => (resolved.res.tag = "Err" /\ resolved.res.err.error = "Unimplemented")
    /\ (pc = "expanded" /\ Carries({"Command", "Glob"}))
          => \A i \in 1..Len(expanded) :
                 expanded[i].tag = "Err" /\ expanded[i].err.error = "Unimplemented"

\* C7: when a Parameter of a word whose expansions are Parameters and Tildes
\* names a variable with no entry in the binding set, expand_word gives Ok,
\* the `$name` text stays in the word and the Parameter stays among its
\* expansions.
C7_UnsetIsRetained ==
    (Resolved /\ ~Carries({"Command", "Glob"})) =>
        \A i \in 1..Len(word.val.expansions) :
            (word.val.expansions[i].kind = "Parameter"
                /\ Entries(word.val.expansions[i].name) = {})
            => /\ resolved.res.tag = "Ok"
               /\ Contains(resolved.res.val.name, <<"$">> \o word.val.expansions[i].name)
               /\ \E j \in 1..Len(resolved.res.val.expansions) :
                      /\ resolved.res.val.expansions[j].kind = "Parameter"
                      /\ resolved.res.val.expansions[j].name = word.val.expansions[i].name

\* C8: when the one expansion of a word is a Parameter whose name has several
\* entries in the binding set, expand_word gives the text with `$name`
\* replaced by the value of the last of these entries and every other
\* character unchanged.
C8_LastEntryWins ==
    (/\ Resolved
     /\ Len(word.val.expansions) = 1
     /\ word.val.expansions[1].kind = "Parameter"
     /\ Cardinality(Entries(word.val.expansions[1].name)) >= 2)
    => LET e == word.val.expansions[1]
           last == CHOOSE j \in Entries(e.name) : \A k \in Entries(e.name) : k <= j
       IN  /\ resolved.res.tag = "Ok"
           /\ resolved.res.val.name =
                  SubSeq(text, 1, e.start) \o bindings[last][2]
                  \o SubSeq(text, e.end + 2, Len(text))

-----------------------------------------------------------------------------
(* Properties of rendering *)

\* C9: when parse succeeds on a line, parse succeeds on the rendering of its
\* tree, and the rendering of that second tree equals the first rendering.
C9_RenderIsFixedPoint ==
    /\ pc = "reparsed" => tree.tag = "Ret"
    /\ pc = "rerendered" => rendered2 = rendered

-----------------------------------------------------------------------------
(* Properties of the scanner *)

Scanned == pc = "scanned" /\ mode = "All" /\ word.tag = "Ret"

\* The character at position k of the text (the first is position 1) is a
\* `~` that begins the word or follows a space or `=`, and that ends the word
\* or is followed by a space or `/`.
Flanked(k) ==
    /\ text[k] = "~"
    /\ (k = 1 \/ text[k - 1] \in {" ", "="})
    /\ (k = Len(text) \/ text[k + 1] \in {" ", "/"})

\* A Tilde expansion is recorded for position k.
Recorded(k) ==
    \E j \in 1..Len(word.val.expansions) : word.val.expansions[j] = Tilde(k - 1)

\* Position k lies in the range of a Glob or Command expansion of the word.
Covered(k) ==
    \E j \in 1..Len(word.val.expansions) :
        /\ word.val.expansions[j].kind \in {"Glob", "Command"}
        /\ word.val.expansions[j].start <= k - 1
        /\ k - 1 <= word.val.expansions[j].end

\* C10, as stated: in a word scanned with every expansion enabled, a Tilde
\* is recorded at a position exactly when the `~` there is flanked.
C10_TildeExactlyWhenFlanked ==
    Scanned => \A k \in 1..Len(text) : Recorded(k) <=> Flanked(k)

\* C10, amended: in a word scanned with every expansion enabled, a Tilde is
\* recorded at a position exactly when the `~` there is flanked and the
\* position lies in the range of no Glob or Command expansion of the word;
\* and every Tilde recorded is at a position of the text.
C10_TildeWhenFlankedOutsideRuns ==
    Scanned =>
        /\ \A k \in 1..Len(text) : Recorded(k) <=> (Flanked(k) /\ ~Covered(k))
        /\ \A j \in 1..Len(word.val.expansions) :
               word.val.expansions[j].kind = "Tilde"
               => word.val.expansions[j].index \in 0..(Len(text) - 1)

\* A word with a Tilde recorded, and a `~` for which none is.
C10_Witness ==
    /\ Scanned
    /\ \E k \in 1..Len(text) : Recorded(k)
    /\ \E k \in 1..Len(text) : text[k] = "~" /\ ~Recorded(k)

-----------------------------------------------------------------------------
(* Properties of quoting *)

\* The kinds of the expansions of a word.
Kinds(w) == {w.expansions[j].kind : j \in 1..Len(w.expansions)}

\* The first command of the tree.
First == Commands(tree.val)[1]

-----------------------------------------------------------------------------
(* Properties of the binding set *)

\* The prefix assignments of the first command that assign name.
Assigning(name) ==
    {j \in 1..Len(First.prefixes) :
        First.prefixes[j].kind = "Assignment" /\ First.prefixes[j].var.name = name}

\* The positions of the returned binding set that bind name.
Bound(name) == {p \in 1..Len(cmdvars.val) : cmdvars.val[p][1] = name}

\* C12: in the binding set Command::vars returns for an environment that
\* binds no name twice, a name assigned by a prefix Assignment has one entry,
\* which stands after every entry of a name that no prefix assigns, and whose
\* value, when the last assignment of the name carries no expansion, is the
\* text of that assignment's value.
C12_LocalsShadowAndComeLast ==
    (/\ pc = "vars"
     /\ cmdvars.tag = "Ret"
     /\ \A i, j \in 1..Len(bindings) : bindings[i][1] = bindings[j][1] => i = j)
    => \A name \in {<<"a">>, <<"b">>} :
           Assigning(name) # {} =>
               LET last == CHOOSE j \in Assigning(name) : \A k \in Assigning(name) : k <= j
               IN  /\ Cardinality(Bound(name)) = 1
                   /\ \A p \in Bound(name) :
                        /\ \A q \in 1..Len(cmdvars.val) :
                               Assigning(cmdvars.val[q][1]) = {} => q < p
                        /\ First.prefixes[last].val.expansions = <<>>
                               => cmdvars.val[p][2] = First.prefixes[last].val.name

-----------------------------------------------------------------------------
(* Properties of Command::redirections *)

\* The metas of the first command, prefixes then suffixes.
Metas == First.prefixes \o First.suffixes

\* The positions of Metas holding an Input redirect, an Output redirect for
\* standard output, an Output redirect for standard error.
Inputs == {j \in 1..Len(Metas) :
              Metas[j].kind = "Redirect" /\ Metas[j].redirect.kind = "Input"}

Outputs(froms) ==
    {j \in 1..Len(Metas) :
        /\ Metas[j].kind = "Redirect"
        /\ Metas[j].redirect.kind = "Output"
        /\ Metas[j].redirect.from \in froms}

\* The redirect at the last of the positions, None when there is none.
LastOf(positions) ==
    IF positions = {} THEN None
    ELSE Some(Metas[CHOOSE j \in positions : \A k \in positions : k <= j].redirect)

\* C13: Command::redirections returns (stdin, stdout, stderr): the last Input
\* redirect, the last Output redirect whose from is None or the word "1", the
\* last Output redirect whose from is the word "2", among the prefixes then
\* the suffixes; each None when there is none.
C13_LastRedirectWins ==
    pc = "redirections" =>
        redirs = << LastOf(Inputs),
                    LastOf(Outputs({None, Some(Word(<<"1">>, <<>>))})),
                    LastOf(Outputs({Some(Word(<<"2">>, <<>>))})) >>

\* A command with a standard-output redirect before its name and another
\* after it, the second being the one returned.
C13_Witness ==
    /\ pc = "redirections"
    /\ Len(First.prefixes) = 1 /\ Len(First.suffixes) = 1
    /\ Outputs({None, Some(Word(<<"1">>, <<>>))}) = {1, 2}
    /\ redirs[2] = Some(First.suffixes[1].redirect)

-----------------------------------------------------------------------------
(* Properties of nesting *)

Max(S) == CHOOSE x \in S : \A y \in S : y <= x

\* How deep the `$(` of a text nest: from position i on, level of them being
\* open.
RECURSIVE NestingFrom(_, _, _)
NestingFrom(s, i, level) ==
    IF i > Len(s) THEN level
    ELSE IF s[i] = "$" /\ i < Len(s) /\ s[i + 1] = "("
    THEN Max({level + 1, NestingFrom(s, i + 2, level + 1)})
    ELSE IF s[i] = ")" /\ level > 0
    THEN Max({level, NestingFrom(s, i + 1, level - 1)})
    ELSE NestingFrom(s, i + 1, level)

Nesting(s) == NestingFrom(s, 1, 0)

\* C14: a word whose command substitutions nest as deep as the inputs go is
\* refused with an error value, the depth being over the limit of the scanner.
C14_DeepNestingIsRefused ==
    (pc = "scanned" /\ mode # "None" /\ Nesting(text) = MaxNesting)
        => word.tag = "Err"

-----------------------------------------------------------------------------
(* Properties of the recorded ranges *)

\* The characters of s that the bytes first..last are, when both ends are
\* character boundaries.
Bytes(s, first, last) == SubSeq(s, CharsBefore(s, first) + 1, CharsBefore(s, last + 1))

OnBoundaries(s, first, last) ==
    first <= last /\ is_char_boundary(s, first) /\ is_char_boundary(s, last + 1)

\* C15: in every word the scanner gives, the bytes of the text at the range
\* of a Parameter are `$` and the Parameter's name, and the byte at the index
\* of a Tilde is the `~`.
C15_RangesAreByteOffsets ==
    (pc = "scanned" /\ word.tag = "Ret") =>
        \A j \in 1..Len(word.val.expansions) :
            LET e == word.val.expansions[j]
            IN  /\ e.kind = "Parameter" =>
                     /\ OnBoundaries(text, e.start, e.end)
                     /\ Bytes(text, e.start, e.end) = <<"$">> \o e.name
                /\ e.kind = "Tilde" =>
                     /\ OnBoundaries(text, e.index, e.index)
                     /\ Bytes(text, e.index, e.index) = <<"~">>

-----------------------------------------------------------------------------
(* Properties of the Command expansions *)

\* The position of the `)` that balances a `$(` when the text from position
\* i on is read with depth inner `$(` open; Len(s) + 1 when there is none.
RECURSIVE ClosingFrom(_, _, _)
ClosingFrom(s, i, depth) ==
    IF i > Len(s) THEN Len(s) + 1
    ELSE IF s[i] = "$" /\ i < Len(s) /\ s[i + 1] = "("
    THEN ClosingFrom(s, i + 1, depth + 1)
    ELSE IF s[i] = ")"
    THEN (IF depth = 0 THEN i ELSE ClosingFrom(s, i + 1, depth - 1))
    ELSE ClosingFrom(s, i + 1, depth)

\* The byte offset of the character at position k of s (the first is 1).
ByteOffset(s, k) == len(SubSeq(s, 1, k - 1))

\* C16: in every word the scanner gives, the range of a Command expansion
\* starts at the byte offset of a `$` that a `(` follows and, when that `$(`
\* is balanced by a `)`, ends at the byte offset of that `)`, the ast being
\* what parse gives for the text between them.
C16_CommandSpansBalanced ==
    (pc = "scanned" /\ word.tag = "Ret") =>
        \A j \in 1..Len(word.val.expansions) :
            word.val.expansions[j].kind = "Command" =>
                \E k \in 1..(Len(text) - 1) :
                    /\ text[k] = "$" /\ text[k + 1] = "("
                    /\ word.val.expansions[j].start = ByteOffset(text, k)
                    /\ ClosingFrom(text, k + 2, 0) <= Len(text) =>
                         /\ word.val.expansions[j].end
                                = ByteOffset(text, ClosingFrom(text, k + 2, 0))
                         /\ Ret(word.val.expansions[j].ast)
                                = parse(SubSeq(text, k + 2, ClosingFrom(text, k + 2, 0) - 1))

-----------------------------------------------------------------------------
(* Properties of the groups *)

\* The runs of the tokens between semicolons, and the stages of one of them
\* that hold a token.
Groups == split(tokens, "Semicolon")

StagesIn(group) == SelectSeq(split(group, "Pipe"), LAMBDA st : st # <<>>)

\* The groups that hold a command, in order.
Live == SelectSeq(Groups, LAMBDA g : StagesIn(g) # <<>>)

\* The tokens of groups, a Semicolon between two of them.
RECURSIVE Rejoined(_)
Rejoined(groups) ==
    IF groups = <<>> THEN <<>>
    ELSE IF Len(groups) = 1 THEN groups[1]
    ELSE groups[1] \o <<TSemicolon>> \o Rejoined(Tail(groups))

\* C17: the tree parse_tokens returns holds one entry for each group that
\* holds a command, in the order of the groups, made of the commands of the
\* stages of that group; and what parse_tokens gives is what it gives for the
\* tokens without the groups that hold no token.
C17_OneEntryPerGroup ==
    /\ Parsed =>
         /\ Len(tree.val.commands) = Len(Live)
         /\ \A i \in 1..Len(Live) :
                CommandsOf(tree.val.commands, i)
                    = [k \in 1..Len(StagesIn(Live[i])) |->
                           parse_command(StagesIn(Live[i])[k]).val[1]]
                      \o CommandsOf(tree.val.commands, i + 1)
    /\ pc = "parsed" =>
         tree = parse_tokens(Rejoined(SelectSeq(Groups, LAMBDA g : g # <<>>)))

\* A tree of two entries for a run with a group that holds no token.
C17_Witness ==
    /\ Parsed
    /\ Len(tree.val.commands) = 2
    /\ \E i \in 1..Len(Groups) : Groups[i] = <<>>

-----------------------------------------------------------------------------
(* Properties of the expansion list *)

\* The first and last position of the range of an expansion, a Tilde being a
\* range of one position.
First_of(e) == IF e.kind = "Tilde" THEN e.index ELSE e.start

Last_of(e) == IF e.kind = "Tilde" THEN e.index ELSE e.end

\* C18: in every word the scanner gives, each range is not empty and lies
\* within the text, and each range but the first starts after the end of the
\* range listed before it: the ranges do not overlap and are listed from left
\* to right.
C18_RangesInOrder ==
    (pc = "scanned" /\ word.tag = "Ret") =>
        /\ \A j \in 1..Len(word.val.expansions) :
               /\ 0 <= First_of(word.val.expansions[j])
               /\ First_of(word.val.expansions[j]) <= Last_of(word.val.expansions[j])
               /\ Last_of(word.val.expansions[j]) < Len(text)
               /\ Last_of(word.val.expansions[j]) < len(text)
        /\ \A j \in 1..(Len(word.val.expansions) - 1) :
               Last_of(word.val.expansions[j]) < First_of(word.val.expansions[j + 1])

\* A word with several expansions, the last a `$(` that is never closed.
C18_Witness ==
    /\ pc = "scanned" /\ word.tag = "Ret"
    /\ Len(word.val.expansions) >= 2
    /\ word.val.expansions[Len(word.val.expansions)].kind = "Command"
    /\ ClosingFrom(text, word.val.expansions[Len(word.val.expansions)].start + 3, 0)
           > Len(text)

\* A pattern that holds two `*` next to each other.
Doubled(pattern) ==
    \E i \in 1..(Len(pattern) - 1) : pattern[i] = "*" /\ pattern[i + 1] = "*"

\* C19: in every word the scanner gives, a Glob is recursive exactly when
\* its pattern holds two `*` next to each other; a pattern whose `*` are
\* apart, as `*a*`, is not recursive.
C19_RecursiveIsDoubledStar ==
    (pc = "scanned" /\ word.tag = "Ret") =>
        \A j \in 1..Len(word.val.expansions) :
            word.val.expansions[j].kind = "Glob" =>
                (word.val.expansions[j].recursive
                     <=> Doubled(word.val.expansions[j].pattern))

\* An expansion that expand_word applies under the binding set: a Tilde, or
\* a Parameter whose name has an entry.
Applied(e) ==
    \/ e.kind = "Tilde"
    \/ e.kind = "Parameter" /\ Entries(e.name) # {}

Unapplied(e) == ~Applied(e)

\* C20: when expand_word gives Ok, the expansions of the word it gives are
\* those of the scanned word without the applied ones, in their order: each
\* applied one is removed once, however many entries bind its name, and no
\* other one is removed.
C20_AppliedAreRemoved ==
    (Resolved /\ resolved.res.tag = "Ok") =>
        resolved.res.val.expansions = SelectSeq(word.val.expansions, Unapplied)

\* A Parameter bound by two entries is removed and another expansion stays.
C20_Witness ==
    /\ Resolved /\ resolved.res.tag = "Ok"
    /\ resolved.res.val.expansions # <<>>
    /\ \E i \in 1..Len(word.val.expansions) :
           /\ word.val.expansions[i].kind = "Parameter"
           /\ Cardinality(Entries(word.val.expansions[i].name)) >= 2

-----------------------------------------------------------------------------
(* Properties of the order of the assignments *)

\* The prefix assignments before prefix j that assign name.
Earlier(name, j) == {i \in Assigning(name) : i < j}

\* The value word of the prefix assignment j is one Parameter and no more.
Refers(j) ==
    /\ First.prefixes[j].kind = "Assignment"
    /\ Len(First.prefixes[j].val.expansions) = 1
    /\ First.prefixes[j].val.expansions[1].kind = "Parameter"
    /\ First.prefixes[j].val.name = <<"$">> \o First.prefixes[j].val.expansions[1].name

\* The value the assignments give to the prefix assignment j, taken in source
\* order: its text when it carries no expansion; when it is one Parameter,
\* the value of the last earlier assignment of that name, or else what the
\* environment binds to it, or else its text; None when the value word
\* carries an expansion of another kind.
RECURSIVE ValueInOrder(_)
ValueInOrder(j) ==
    IF First.prefixes[j].val.expansions = <<>> THEN Some(First.prefixes[j].val.name)
    ELSE IF ~Refers(j) THEN None
    ELSE IF Earlier(First.prefixes[j].val.expansions[1].name, j) # {}
    THEN ValueInOrder(Max(Earlier(First.prefixes[j].val.expansions[1].name, j)))
    ELSE IF Entries(First.prefixes[j].val.expansions[1].name) # {}
    THEN Some(bindings[Max(Entries(First.prefixes[j].val.expansions[1].name))][2])
    ELSE Some(First.prefixes[j].val.name)

\* The environment binds no name twice.
EnvIsMap == \A i, j \in 1..Len(bindings) : bindings[i][1] = bindings[j][1] => i = j

\* C21: in the binding set Command::vars returns, a name whose last prefix
\* assignment has a value that is one Parameter is bound to the value the
\* assignments give in source order: that of the last earlier assignment of
\* the Parameter's name or, when no earlier prefix assigns it, what the
\* environment binds to it.
C21_ValuesResolveInOrder ==
    (pc = "vars" /\ cmdvars.tag = "Ret" /\ EnvIsMap) =>
        \A j \in 1..Len(First.prefixes) :
            (Refers(j) /\ j = Max(Assigning(First.prefixes[j].var.name))) =>
                /\ Bound(First.prefixes[j].var.name) # {}
                /\ \A p \in Bound(First.prefixes[j].var.name) :
                       Some(cmdvars.val[p][2]) = ValueInOrder(j)

-----------------------------------------------------------------------------
(* Properties of the places of the tokens *)

\* The position of the token that names the command of a stage, 0 when none
\* does.
RECURSIVE NamedAt(_, _)
NamedAt(stage, i) ==
    IF i > Len(stage) THEN 0
    ELSE IF NamesCommand(stage[i]) THEN i
    ELSE NamedAt(stage, i + 1)

IsRedirection(tok) == tok.t \in {"RedirectInput", "RedirectOutput"}

IsAssignment(tok) == tok.t = "String" /\ find(tok.s, "=", 1) # 0

IsWord(tok) ==
    \/ tok.t = "String"
    \/ tok.t \in {"SingleQuotedString", "DoubleQuotedString"} /\ tok.closed

Unclosed(tok) == tok.t \in {"SingleQuotedString", "DoubleQuotedString"} /\ ~tok.closed

\* The Meta m is what the token tok stands for: before the name (placed
\* TRUE) a string with `=` is an Assignment, cut at its first `=`; a string or
\* closed quote is otherwise a Word; a redirection is a Redirect.
StandsFor(m, tok, before) ==
    CASE IsRedirection(tok) ->
           /\ m.kind = "Redirect"
           /\ m.redirect.kind = (IF tok.t = "RedirectInput" THEN "Input" ELSE "Output")
           /\ m.redirect.to.name = tok.to
      [] before /\ IsAssignment(tok) ->
           /\ m.kind = "Assignment"
           /\ find(m.var.name, "=", 1) = 0
           /\ m.var.name \o <<"=">> \o m.val.name = tok.s
      [] OTHER ->
           /\ m.kind = "Word"
           /\ m.word.name = tok.s

\* metas stand for toks, one for one and in order.
StandFor(metas, toks, before) ==
    /\ Len(metas) = Len(toks)
    /\ \A j \in 1..Len(toks) : StandsFor(metas[j], toks[j], before)

BeforeName(tok) == IsAssignment(tok) \/ IsRedirection(tok)

AfterName(tok) == IsWord(tok) \/ IsRedirection(tok)

\* C22: in every tree parse_tokens returns, the command of a stage that holds
\* no open quote has for its name the first string without `=` or closed
\* quote of the stage, for its prefixes the assignments and redirections
\* before that token, in their order, and for its suffixes the strings,
\* closed quotes and redirections after it, in their order; a Space gives
\* nothing.
C22_NameSplitsPrefixesAndSuffixes ==
    Parsed =>
        /\ Len(Commands(tree.val)) = Len(Stages(tokens))
        /\ \A k \in 1..Len(Stages(tokens)) :
             (\A i \in 1..Len(Stages(tokens)[k]) : ~Unclosed(Stages(tokens)[k][i])) =>
                 LET stage == Stages(tokens)[k]
                     cmd == Commands(tree.val)[k]
                     n == NamedAt(stage, 1)
                 IN  /\ n # 0
                     /\ cmd.name.name = stage[n].s
                     /\ StandFor(cmd.prefixes,
                                 SelectSeq(SubSeq(stage, 1, n - 1), BeforeName), TRUE)
                     /\ StandFor(cmd.suffixes,
                                 SelectSeq(SubSeq(stage, n + 1, Len(stage)), AfterName),
                                 FALSE)

\* A command with a prefix, a Space and a suffix around its name.
C22_Witness ==
    /\ Parsed
    /\ \E k \in 1..Len(Stages(tokens)) :
         /\ Len(Commands(tree.val)[k].prefixes) > 0
         /\ Len(Commands(tree.val)[k].suffixes) > 0
         /\ \E i \in 1..Len(Stages(tokens)[k]) : Stages(tokens)[k][i].t = "Space"

-----------------------------------------------------------------------------
(* Properties of the scanner's failures *)

\* A `$` of s that neither a name character nor a `(` follows.
Stray(s) ==
    \E i \in 1..Len(s) :
        /\ s[i] = "$"
        /\ i = Len(s) \/ ~(is_valid_first_character_of_expansion(s[i + 1]) \/ s[i + 1] = "(")

\* C23: scanning a word as unquoted or double-quoted text that holds a `$`
\* which neither a name character nor a `(` follows gives a word or an error
\* value to the caller: it does not abort.
C23_StrayDollarNeverAborts ==
    (pc = "scanned" /\ mode # "None" /\ Stray(text)) => word.tag \in {"Ret", "Err"}

-----------------------------------------------------------------------------
(* Properties of the entries of the binding set *)

\* C24: the binding set Command::vars returns holds an entry for the name of
\* every prefix Assignment of the command, also when the value of the
\* assignment carries a Glob or a Command expansion.
C24_EveryAssignmentIsBound ==
    (pc = "vars" /\ cmdvars.tag = "Ret") =>
        \A j \in 1..Len(First.prefixes) :
            First.prefixes[j].kind = "Assignment"
                => Bound(First.prefixes[j].var.name) # {}

-----------------------------------------------------------------------------
(* Properties of the open quotes *)

\* C25: when a token run holds a quoted token that is not closed,
\* parse_tokens gives an error value to its caller: it gives no tree.
C25_OpenQuoteIsError ==
    (pc = "parsed" /\ \E i \in 1..Len(tokens) : Unclosed(tokens[i]))
        => tree.tag = "Err"

-----------------------------------------------------------------------------
(* Properties of the Parameter expansions *)

\* The positions of the text (the first is 1) that lie in the range of a
\* Command expansion of the scanned word: what stands there is scanned as a
\* command line of its own.
Substituted ==
    {i \in 1..Len(text) :
        \E j \in 1..Len(word.val.expansions) :
            /\ word.val.expansions[j].kind = "Command"
            /\ word.val.expansions[j].start < i - 1
            /\ i - 1 <= word.val.expansions[j].end}

\* The positions of the `$` that a name character follows, outside the
\* command substitutions.
References ==
    {i \in 1..(Len(text) - 1) :
        /\ text[i] = "$"
        /\ is_valid_first_character_of_expansion(text[i + 1])
        /\ i \notin Substituted}

IsParameter(e) == e.kind = "Parameter"

\* C26: a word scanned with ExpansionType::All carries one Parameter for
\* each `$` that a name character follows, also when a `*` stands before the
\* `$` in the same path segment.
C26_EveryReferenceIsRecorded ==
    (pc = "scanned" /\ mode = "All" /\ word.tag = "Ret") =>
        Len(SelectSeq(word.val.expansions, IsParameter)) = Cardinality(References)

-----------------------------------------------------------------------------
(* Properties of the retained expansions *)

\* C27: when expand_word gives Ok, the range of every Parameter that stays
\* among the expansions of the word it gives covers the bytes `$` and the
\* Parameter's name in the text of that word.
C27_RetainedRangesStayValid ==
    (Resolved /\ resolved.res.tag = "Ok") =>
        \A j \in 1..Len(resolved.res.val.expansions) :
            resolved.res.val.expansions[j].kind = "Parameter" =>
                /\ resolved.res.val.expansions[j].end < len(resolved.res.val.name)
                /\ OnBoundaries(resolved.res.val.name,
                                resolved.res.val.expansions[j].start,
                                resolved.res.val.expansions[j].end)
                /\ Bytes(resolved.res.val.name,
                         resolved.res.val.expansions[j].start,
                         resolved.res.val.expansions[j].end)
                       = <<"$">> \o resolved.res.val.expansions[j].name

-----------------------------------------------------------------------------
(* Properties of the expanded assignments *)

\* The prefixes of the first command are assignments of names that differ,
\* and their values carry Parameter expansions only.
PlainAssignments ==
    /\ \A i \in 1..Len(First.prefixes) : First.prefixes[i].kind = "Assignment"
    /\ \A i, j \in 1..Len(First.prefixes) :
           First.prefixes[i].var.name = First.prefixes[j].var.name => i = j
    /\ \A i \in 1..Len(First.prefixes) : Kinds(First.prefixes[i].val) \subseteq {"Parameter"}

\* C28: for a command whose prefix assignments have names that differ and
\* values that carry Parameter expansions only, in an environment that binds
\* no name twice, the value text of each prefix Assignment in the command
\* that Command::expand gives is the value that Command::vars binds to its
\* name.
C28_ExpandAgreesWithVars ==
    (/\ pc = "expanded"
     /\ cmdvars.tag = "Ret" /\ expanded.tag = "Ok"
     /\ EnvIsMap /\ PlainAssignments)
    => \A j \in 1..Len(expanded.val.prefixes) :
           /\ Bound(expanded.val.prefixes[j].var.name) # {}
           /\ \A p \in Bound(expanded.val.prefixes[j].var.name) :
                  cmdvars.val[p][2] = expanded.val.prefixes[j].val.name

-----------------------------------------------------------------------------
(* Properties of the steps of the scanner *)

\* A step is a call made for a command substitution: calls of parse_word are
\* taken up on top of the one in progress.
Calling == frames # <<>> /\ Len(frames') > Len(frames)

\* A step is an iteration of a loop that stays in that loop.
Iterating ==
    /\ frames # <<>> /\ Len(frames') = Len(frames)
    /\ frames[1].kind = "call" /\ frames'[1].kind = "call"
    /\ frames'[1].at = frames[1].at

-----------------------------------------------------------------------------
(* Properties of the cursor of read_line *)

\* C30: after every sequence of events of read_line, no insert, remove,
\* replace_range or slice of the line was out of range, and the index is a
\* position of the line: it is at most line.len() and on a character
\* boundary.
C30_CursorIsValid ==
    pc = "reading" =>
        /\ state.status # "panic"
        /\ 0 <= state.index /\ state.index <= len(state.line)
        /\ is_char_boundary(state.line, state.index)

=============================================================================
